---------------------------- MODULE Spec2Model ----------------------------
(***************************************************************************)
(* Model of doom_src/src/doom/r_jit.c: the executable code buffer, the     *)
(* per-architecture code generator, the machine code it emits (decoded and *)
(* executed instruction by instruction), the mode controller, the          *)
(* auto-switch timer and the per-frame statistics hooks; of the reader of   *)
(* its benchmark log, hardware/experiments/self_modifying.cpp; and of the   *)
(* WebSocket server of hardware/server.cpp with the cancel flag its         *)
(* experiments poll.                                                        *)
(*                                                                         *)
(* Number representation.  TLC integers are 32-bit signed, so machine      *)
(* words are kept as little-endian tuples of 16-bit limbs: a 32-bit word   *)
(* is <<lo, hi>>, a 64-bit value is <<l0, l1, l2, l3>>.  Bytes, register   *)
(* numbers and model time are plain integers.                              *)
(***************************************************************************)
EXTENDS Integers, Naturals, Sequences, FiniteSets, TLC

VARIABLES
    arch,                  \* build target: which #ifdef branch was compiled
    clock,                 \* CLOCK_MONOTONIC, in ticks (TicksPerSec per second)
    jit_code,              \* r_jit.c:38  address of the mapping, or NULL
    jit_prot,              \* protection state of the mapping for this thread
    jit_buf,               \* bytes written at the start of the mapping
    icache_stale,          \* written bytes the instruction cache has not seen
    gen_steps,             \* memory/platform steps of the latest generate call
    jit_compiled_fn,       \* r_jit.c:270
    jit_current_colormap,  \* r_jit.c:271
    jit_stats,             \* r_jit.c:20
    jit_mode_enabled,      \* r_jit.c:21
    frame_start_time,      \* r_jit.c:24
    jit_frame_calls,       \* r_jit.c:25
    last_switch_time,      \* r_jit.c:29
    auto_switch_enabled,   \* r_jit.c:30
    log_file,              \* r_jit.c:34  TRUE while the FILE* is non-NULL
    log_rows,              \* rows fprintf'ed to the log since it was opened
    log_flushed,           \* how many of log_rows have been fflush'ed
    flush_counter,         \* r_jit.c:256 static int flush_counter
    program_start,         \* r_jit.c:225 static struct timespec program_start
    in_frame,              \* renderer position: between FrameStart and FrameEnd
    cpu,                   \* processor state while generated code runs
    hist,                  \* history of the calls made (observation only)
    srv                    \* server.cpp: the cancel flag and the client threads

vars == <<arch, clock, jit_code, jit_prot, jit_buf, icache_stale, gen_steps,
          jit_compiled_fn, jit_current_colormap, jit_stats, jit_mode_enabled,
          frame_start_time, jit_frame_calls, last_switch_time,
          auto_switch_enabled, log_file, log_rows, log_flushed, flush_counter,
          program_start, in_frame, cpu, hist, srv>>

genVars == <<jit_code, jit_prot, jit_buf, icache_stale, gen_steps,
             jit_compiled_fn, jit_current_colormap>>

frameVars == <<jit_stats, jit_mode_enabled, frame_start_time, jit_frame_calls,
               last_switch_time, auto_switch_enabled, log_file, log_rows,
               log_flushed, flush_counter, program_start, in_frame>>

-----------------------------------------------------------------------------
(* Limb arithmetic *)

LIMB == 256 * 256

RECURSIVE BitOrN(_, _, _)
BitOrN(a, b, n) ==
    IF n = 0 THEN 0
    ELSE (IF a % 2 = 1 \/ b % 2 = 1 THEN 1 ELSE 0)
         + 2 * BitOrN(a \div 2, b \div 2, n - 1)

RECURSIVE BitAndN(_, _, _)
BitAndN(a, b, n) ==
    IF n = 0 THEN 0
    ELSE (IF a % 2 = 1 /\ b % 2 = 1 THEN 1 ELSE 0)
         + 2 * BitAndN(a \div 2, b \div 2, n - 1)

BitOr16(a, b) == BitOrN(a, b, 16)
BitAnd16(a, b) == BitAndN(a, b, 16)

RECURSIVE Pow2(_)
Pow2(n) == IF n = 0 THEN 1 ELSE 2 * Pow2(n - 1)

\* bits h..l of a 16-bit limb
BitsLo(x, h, l) == (x \div Pow2(l)) % Pow2(h - l + 1)

\* bits h..l (h - l < 16) of a 32-bit word <<lo, hi>>
Bits(w, h, l) ==
    IF h < 16 THEN BitsLo(w[1], h, l)
    ELSE IF l >= 16 THEN BitsLo(w[2], h - 16, l - 16)
    ELSE BitsLo(w[1], 15, l) + BitsLo(w[2], h - 16, 0) * Pow2(16 - l)

Or32(a, b) == <<BitOr16(a[1], b[1]), BitOr16(a[2], b[2])>>

\* (v << 5) as a 32-bit word, for v < 2^27
Shl5(v) == <<(v % 2048) * 32, v \div 2048>>

Add32(a, b) ==
    LET s0 == a[1] + b[1]
        s1 == a[2] + b[2] + s0 \div LIMB
    IN  <<s0 % LIMB, s1 % LIMB>>

Add64(a, b) ==
    LET s0 == a[1] + b[1]
        s1 == a[2] + b[2] + s0 \div LIMB
        s2 == a[3] + b[3] + s1 \div LIMB
        s3 == a[4] + b[4] + s2 \div LIMB
    IN  <<s0 % LIMB, s1 % LIMB, s2 % LIMB, s3 % LIMB>>

\* two's complement negation and subtraction, 64 bit
Neg64(a) ==
    Add64(<<LIMB - 1 - a[1], LIMB - 1 - a[2], LIMB - 1 - a[3], LIMB - 1 - a[4]>>,
          <<1, 0, 0, 0>>)
Sub64(a, b) == Add64(a, Neg64(b))

Zext32(w) == <<w[1], w[2], 0, 0>>
Low32(v) == <<v[1], v[2]>>
Small64(n) == <<n, 0, 0, 0>>

NULL == <<0, 0, 0, 0>>

\* little-endian bytes of a 64-bit value, as memcpy(&v, 8) stores them
Bytes64(v) ==
    <<v[1] % 256, v[1] \div 256, v[2] % 256, v[2] \div 256,
      v[3] % 256, v[3] \div 256, v[4] % 256, v[4] \div 256>>

\* little-endian bytes of a uint32_t store
Bytes32(w) == <<w[1] % 256, w[1] \div 256, w[2] % 256, w[2] \div 256>>

RECURSIVE FlattenWords(_)
FlattenWords(ws) ==
    IF ws = <<>> THEN <<>> ELSE Bytes32(Head(ws)) \o FlattenWords(Tail(ws))
-----------------------------------------------------------------------------
(* Build targets and platform facts *)

\* the four ways r_jit.c is compiled: __aarch64__ with and without
\* __APPLE__, __x86_64__, and the #else fallback
Archs == {"arm64_apple", "arm64", "x86_64", "other"}

IsArm(a) == a \in {"arm64_apple", "arm64"}

\* r_jit.c:47-53: on Apple the mapping is MAP_JIT.  On Apple Silicon a
\* MAP_JIT mapping is, per thread, either writable or executable, and starts
\* executable; every other mapping here is PROT_READ|WRITE|EXEC at once.
MapProt(a) == IF a = "arm64_apple" THEN "rx" ELSE "rwx"

Writable(p) == p \in {"rw", "rwx"}
Executable(p) == p \in {"rx", "rwx"}

\* x86_64 keeps its instruction cache coherent with data stores; ARM64 does
\* not, which is why r_jit.c:379 invalidates explicitly.
StoresLeaveICacheStale(a) == IsArm(a)

-----------------------------------------------------------------------------
(* Code generation: r_jit.c:273-490 *)

W(hi, lo) == <<lo, hi>>

\* the address kept in a 32-bit integer
CmapAddr32(colormap) == <<colormap[1], colormap[2], 0, 0>>

\* uintptr_t cmap_addr = (uintptr_t) colormap;          r_jit.c:296, 467
CmapAddr(colormap) == colormap

\* (cmap_addr >> (16 * k)) & 0xFFFF                      r_jit.c:312-318
Imm16(cmap_addr, k) ==
    BitAnd16(SubSeq(cmap_addr \o <<0, 0, 0>>, k + 1, k + 4)[1], \hFFFF)

\* r_jit.c:302-375: the words stored through code[i++]
ARM64Words(colormap) ==
    LET cmap_addr == CmapAddr(colormap)
        pre == << W(\ha9bf, \h4ff3),                            \* 306
                  W(\ha9bf, \h57f5),                            \* 308
                  Or32(W(\hd280, \h0013), Shl5(Imm16(cmap_addr, 0))),  \* 312
                  Or32(W(\hf2a0, \h0013), Shl5(Imm16(cmap_addr, 1))),  \* 314
                  Or32(W(\hf2c0, \h0013), Shl5(Imm16(cmap_addr, 2))),  \* 316
                  Or32(W(\hf2e0, \h0013), Shl5(Imm16(cmap_addr, 3))),  \* 318
                  W(\hd280, \h2814),                            \* 322
                  W(\haa00, \h03f5),                            \* 326
                  W(\h2a05, \h03f6) >>                          \* 330
        loop_start == Len(pre)                                  \* 334
        body == << W(\h5310, \h4ec8),                           \* 338
                   W(\h1200, \h1908),                           \* 340
                   W(\h3868, \h6829),                           \* 344
                   W(\h3869, \h6a69),                           \* 348
                   W(\h3900, \h02a9),                           \* 352
                   W(\h8b14, \h02b5),                           \* 356
                   W(\h0b04, \h02d6),                           \* 360
                   W(\h7100, \h0463) >>                         \* 364
        i == loop_start + Len(body)
        offset == loop_start - i                                \* 366
        branch == Or32(W(\h5400, \h000a), Shl5(offset % 524288))  \* 367
        post == << W(\ha8c1, \h57f5),                           \* 371
                   W(\ha8c1, \h4ff3),                           \* 373
                   W(\hd65f, \h03c0) >>                         \* 375
    IN  pre \o body \o <<branch>> \o post

\* r_jit.c:397-447
x86_64_jit_template ==
    << \h53, \h41, \h54, \h41, \h55,
       \h49, \hbc, 0, 0, 0, 0, 0, 0, 0, 0,
       \h41, \hbd, \h40, \h01, 0, 0,
       \h44, \h89, \hc8,
       \h89, \hc3,
       \hc1, \heb, \h10,
       \h83, \he3, \h7f,
       \h0f, \hb6, \h1c, \h1e,
       \h41, \h0f, \hb6, \h1c, \h1c,
       \h88, \h1f,
       \h4c, \h01, \hef,
       \h44, \h01, \hc0,
       \hff, \hc9,
       \h79, \he3,
       \h41, \h5d,
       \h41, \h5c,
       \h5b,
       \hc3 >>

X86_64_COLORMAP_OFFSET == 7
X86_64_TEMPLATE_SIZE == Len(x86_64_jit_template)

\* memcpy(dst + off, src, Len(src)) into a byte sequence
MemCpy(dst, off, src) ==
    [k \in 1..(IF Len(dst) > off + Len(src) THEN Len(dst) ELSE off + Len(src))
        |-> IF k > off /\ k <= off + Len(src) THEN src[k - off]
            ELSE IF k <= Len(dst) THEN dst[k] ELSE 0]

\* r_jit.c:464-468
X86Bytes(buf, colormap) ==
    LET copied == MemCpy(buf, 0, x86_64_jit_template)
        cmap_addr == CmapAddr(colormap)
    IN  MemCpy(copied, X86_64_COLORMAP_OFFSET, Bytes64(cmap_addr))

\* what the generator leaves in the buffer
GenBytes(a, buf, colormap) ==
    IF IsArm(a) THEN MemCpy(buf, 0, FlattenWords(ARM64Words(colormap)))
    ELSE X86Bytes(buf, colormap)

\* the memory and platform steps of a call that rewrites the buffer, in
\* program order (r_jit.c:288-382 and 461-470)
GenSteps(a) ==
    IF a = "arm64_apple"
      THEN <<"write_enable", "store", "write_protect", "icache_invalidate",
             "set_entry">>
    ELSE IF a = "arm64" THEN <<"store", "set_entry">>
    ELSE <<"store", "store", "set_entry">>

\* effect of one step on [prot, stale, faulted, entry_ok]
GenStep(a, st, step) ==
    CASE step = "write_enable"  -> [st EXCEPT !.prot = "rw"]
      [] step = "write_protect" -> [st EXCEPT !.prot = "rx"]
      [] step = "store" ->
            [st EXCEPT !.faulted = @ \/ ~Writable(st.prot),
                       !.stale = @ \/ StoresLeaveICacheStale(a)]
      [] step = "icache_invalidate" -> [st EXCEPT !.stale = FALSE]
      [] step = "set_entry" ->
            [st EXCEPT !.entry_ok = Executable(st.prot) /\ ~st.stale]
      [] OTHER -> st

RECURSIVE RunGenSteps(_, _, _)
RunGenSteps(a, st, steps) ==
    IF steps = <<>> THEN st
    ELSE RunGenSteps(a, GenStep(a, st, Head(steps)), Tail(steps))
-----------------------------------------------------------------------------
(* Inputs and bounds *)

\* model clock resolution: ticks per second (the source's is 10^9 ns)
TicksPerSec == 4
\* the monotonic clock is not read past this tick
MaxClock == 12
\* R_JIT_Init is called at most this many times in one run
MaxInits == 2

\* colormap table addresses handed to the generator
CmapA == <<\h7800, \h3456, \h7f12, 0>>
CmapB == <<\h9900, \hbbaa, \hddcc, \hffee>>
CmapC == <<\hff00, \hffff, 0, \h8000>>
CmapAddrs == {CmapA, CmapB, CmapC}

\* addresses mmap may return
MapAddrs == {<<0, \h4000, \h7fab, 0>>, <<\h1000, \h4000, \h7fab, 0>>}

\* struct timespec of a clock reading
ClockGettime(t) == [tv_sec |-> t \div TicksPerSec, tv_nsec |-> t % TicksPerSec]

ZeroTime == [tv_sec |-> 0, tv_nsec |-> 0]

ZeroStats == [jit_calls |-> 0, branch_calls |-> 0, jit_frames |-> 0,
              branch_frames |-> 0, jit_time_ms |-> 0, branch_time_ms |-> 0]

\* "timestamp_ms,mode,frame_time_ms,draw_calls"          r_jit.c:79
HeaderRow == [kind |-> "header", mode |-> "", timestamp |-> 0, frame_time |-> 0,
              draw_calls |-> 0]

\* nothing printed yet
NoReport == [printed |-> FALSE]

\* no experiment run yet
NoResult == [ran |-> FALSE]

\* one entry of the call history
Op(name, arg, info) == [op |-> name, arg |-> arg, info |-> info]
NoOp == Op("none", NULL, [x |-> 0])

Record(h, o) == [h EXCEPT !.prev = h.last, !.last = o]

-----------------------------------------------------------------------------
(* Lifecycle: r_jit.c:45-103 *)

\* R_JIT_Init; now is the clock reading of line 69, base what mmap returns,
\* mmap_ok and log_ok whether mmap and fopen succeed
R_JIT_Init(now, base, mmap_ok, log_ok) ==
    /\ clock' = now
    /\ jit_code' = IF mmap_ok THEN base ELSE NULL
    /\ jit_prot' = IF mmap_ok THEN MapProt(arch) ELSE "none"
    /\ jit_buf' = <<>>
    /\ icache_stale' = FALSE
    /\ jit_stats' = ZeroStats
    /\ jit_mode_enabled' = FALSE
    /\ last_switch_time' = ClockGettime(now)
    /\ log_file' = log_ok
    /\ log_rows' = IF log_ok THEN <<HeaderRow>> ELSE log_rows
    /\ log_flushed' = IF log_ok THEN 1 ELSE log_flushed
    /\ hist' = [Record(hist, Op("init", base, [ok |-> mmap_ok, log |-> log_ok]))
                  EXCEPT !.inits = @ + 1, !.gen_arg = <<>>, !.exp = ZeroStats,
                         !.mid_toggle = @ \/ in_frame,
                         !.unmaps = 0, !.closes = 0]
    /\ UNCHANGED <<srv, arch, gen_steps, jit_compiled_fn, jit_current_colormap,
                   frame_start_time, jit_frame_calls, auto_switch_enabled,
                   flush_counter, program_start, in_frame, cpu>>

\* a shutdown that leaves the stream pointer set after fclose
LogFileKept(open) == open

\* log_file = NULL;                                       r_jit.c:100
LogFileClosed(open) == FALSE

\* hist.unmaps and hist.closes count the munmap and fclose calls made since
\* the latest R_JIT_Init
R_JIT_Shutdown ==
    /\ IF jit_code # NULL
         THEN /\ jit_code' = NULL
              /\ jit_prot' = "none"
              /\ jit_buf' = <<>>
              /\ icache_stale' = FALSE
         ELSE UNCHANGED <<jit_code, jit_prot, jit_buf, icache_stale>>
    /\ IF log_file
         THEN /\ log_file' = LogFileClosed(log_file)
              /\ log_flushed' = Len(log_rows)
         ELSE UNCHANGED <<log_file, log_flushed>>
    /\ hist' = [Record(hist, Op("shutdown", NULL,
                                [unmapped |-> jit_code # NULL, closed |-> log_file,
                                 stats |-> jit_stats]))
                  EXCEPT !.unmaps = IF jit_code # NULL THEN @ + 1 ELSE @,
                         !.closes = IF log_file THEN @ + 1 ELSE @]
    /\ UNCHANGED <<srv, arch, clock, gen_steps, jit_compiled_fn, jit_current_colormap,
                   jit_stats, jit_mode_enabled, frame_start_time, jit_frame_calls,
                   last_switch_time, auto_switch_enabled, log_rows, flush_counter,
                   program_start, in_frame, cpu>>

\* early returns without the same-colormap test
GenSkipsUnmappedOnly(colormap) == jit_code = NULL

\* a build in which every architecture takes a generating branch
SupportedAll(a) == TRUE

\* #ifdef __aarch64__ ... #elif defined(__x86_64__) ... #else
\*                                                        r_jit.c:275, 393, 481
Supported(a) == a # "other"

\* r_jit.c:281-286 and 455-459: the two early returns
GenSkips(colormap) ==
    \/ jit_code = NULL
    \/ (colormap = jit_current_colormap /\ jit_compiled_fn # NULL)

\* R_JIT_GenerateDrawColumn, all three #if branches
R_JIT_GenerateDrawColumn(colormap) ==
    /\ IF ~Supported(arch)
         THEN /\ jit_compiled_fn' = NULL
              /\ gen_steps' = <<>>
              /\ UNCHANGED <<jit_prot, jit_buf, icache_stale, jit_current_colormap>>
              /\ hist' = [Record(hist, Op("generate", colormap,
                                           [rewrote |-> FALSE, entry_ok |-> FALSE,
                                            faulted |-> FALSE]))
                            EXCEPT !.gen_arg = IF jit_code # NULL THEN colormap ELSE @]
       ELSE IF GenSkips(colormap)
         THEN /\ gen_steps' = <<>>
              /\ UNCHANGED <<jit_prot, jit_buf, icache_stale, jit_compiled_fn,
                             jit_current_colormap>>
              /\ hist' = [Record(hist, Op("generate", colormap,
                                           [rewrote |-> FALSE, entry_ok |-> FALSE,
                                            faulted |-> FALSE]))
                            EXCEPT !.gen_arg = IF jit_code # NULL THEN colormap ELSE @]
       ELSE LET steps == GenSteps(arch)
                st == RunGenSteps(arch, [prot |-> jit_prot, stale |-> icache_stale,
                                         faulted |-> FALSE, entry_ok |-> FALSE],
                                  steps)
            IN  /\ jit_current_colormap' = colormap
                /\ jit_buf' = GenBytes(arch, jit_buf, colormap)
                /\ jit_prot' = st.prot
                /\ icache_stale' = st.stale
                /\ jit_compiled_fn' = jit_code
                /\ gen_steps' = steps
                /\ hist' = [Record(hist, Op("generate", colormap,
                                             [rewrote |-> TRUE,
                                              entry_ok |-> st.entry_ok,
                                              faulted |-> st.faulted]))
                              EXCEPT !.gen_arg = colormap, !.generated = TRUE]
    /\ UNCHANGED <<srv, arch, clock, jit_code, cpu>>
    /\ UNCHANGED frameVars

\* R_JIT_GetDrawColumn                                    r_jit.c:492-495
R_JIT_GetDrawColumn == jit_compiled_fn
-----------------------------------------------------------------------------
(* Mode controller, auto-switch timer and frame hooks: r_jit.c:105-263 *)

\* static double switch_interval_sec = 1.0;               r_jit.c:31
switch_interval_sec == 1
\* if (++flush_counter >= 100)                            r_jit.c:257
FLUSH_EVERY == 100

\* the difference taken the wrong way round
ElapsedReversed(a, b) ==
    (b.tv_sec - a.tv_sec) * TicksPerSec + (b.tv_nsec - a.tv_nsec)

\* (a.tv_sec - b.tv_sec) + (a.tv_nsec - b.tv_nsec) / 1e9, in ticks
\*                                                        r_jit.c:179-180
ElapsedSince(a, b) ==
    (a.tv_sec - b.tv_sec) * TicksPerSec + (a.tv_nsec - b.tv_nsec)

\* a comparison that misses the boundary: elapsed > switch_interval_sec
SwitchDueStrict(elapsed) == elapsed > switch_interval_sec * TicksPerSec

\* if (elapsed >= switch_interval_sec)                    r_jit.c:195
SwitchDue(elapsed) == elapsed >= switch_interval_sec * TicksPerSec

\* a toggle that only ever switches the compiled mode on
ToggledOn(mode) == TRUE

\* jit_mode_enabled = !jit_mode_enabled;                  r_jit.c:107
Toggled(mode) == ~mode

R_JIT_Toggle ==
    /\ jit_mode_enabled' = Toggled(jit_mode_enabled)
    /\ hist' = [hist EXCEPT !.mid_toggle = @ \/ in_frame]
    /\ UNCHANGED <<srv, arch, clock, cpu, jit_stats, frame_start_time, jit_frame_calls,
                   last_switch_time, auto_switch_enabled, log_file, log_rows,
                   log_flushed, flush_counter, program_start, in_frame>>
    /\ UNCHANGED genVars

\* a toggle that restarts the interval whichever way it switches
TimerRestartsAlways(enabled) == TRUE

\* a toggle that never restarts the interval
TimerRestartsNever(enabled) == FALSE

\* if (auto_switch_enabled), tested after the flag was flipped
\*                                                        r_jit.c:118
TimerRestarts(enabled) == enabled

\* now is the clock reading of line 120, taken only when enabling
R_JIT_ToggleAutoSwitch(now) ==
    /\ auto_switch_enabled' = ~auto_switch_enabled
    /\ IF TimerRestarts(~auto_switch_enabled)
         THEN /\ last_switch_time' = ClockGettime(now)
              /\ clock' = now
         ELSE /\ now = clock
              /\ UNCHANGED <<last_switch_time, clock>>
    /\ hist' = [hist EXCEPT !.enabled_at = IF auto_switch_enabled THEN -1 ELSE now]
    /\ UNCHANGED <<srv, arch, cpu, jit_stats, jit_mode_enabled, frame_start_time,
                   jit_frame_calls, log_file, log_rows, log_flushed,
                   flush_counter, program_start, in_frame>>
    /\ UNCHANGED genVars

\* a recorder that credits the other aggregate
CreditsOther == ~jit_mode_enabled

\* a recorder that credits the Compiled aggregate only when a compiled
\* function is there to dispatch to
CreditsResident == jit_mode_enabled /\ jit_compiled_fn # NULL

\* which aggregate line 235 credits
CreditsJit == jit_mode_enabled

\* a frame start that leaves the counter as it finds it
FrameStartKeepsCalls(calls) == calls

\* jit_frame_calls = 0;                                   r_jit.c:169
FrameStartCalls(calls) == 0

\* R_JIT_FrameStart; t1 is the clock reading of line 168 and now the one of
\* line 177, taken only when auto-switch is enabled.  The two debug counters
\* (lines 184, 205) only decide what is printed.
R_JIT_FrameStart(t1, now) ==
    LET elapsed == ElapsedSince(ClockGettime(now), last_switch_time)
        flip == auto_switch_enabled /\ SwitchDue(elapsed)
    IN
    /\ frame_start_time' = ClockGettime(t1)
    /\ jit_frame_calls' = FrameStartCalls(jit_frame_calls)
    /\ IF auto_switch_enabled THEN now >= t1 ELSE now = t1
    /\ clock' = now
    /\ jit_mode_enabled' = IF flip THEN ~jit_mode_enabled ELSE jit_mode_enabled
    /\ last_switch_time' = IF flip THEN ClockGettime(now) ELSE last_switch_time
    /\ in_frame' = TRUE
    /\ hist' = [hist EXCEPT !.start_mode = jit_mode_enabled',
                         !.frames = @ + 1,
                         !.since_start = 0,
                         !.auto_used = @ \/ auto_switch_enabled,
                         !.start_elapsed =
                            IF auto_switch_enabled THEN elapsed ELSE -1]
    /\ UNCHANGED <<srv, arch, cpu, jit_stats, auto_switch_enabled, log_file, log_rows,
                   log_flushed, flush_counter, program_start>>
    /\ UNCHANGED genVars

\* a recorder that writes whether or not the file was opened
LogAlways == TRUE

\* if (log_file)                                          r_jit.c:249
LogOpen == log_file

\* a row labelled without looking at the mode
RowModeFixed == "JIT"

\* jit_mode_enabled ? "JIT" : "BRANCH"                    r_jit.c:252
RowMode == IF jit_mode_enabled THEN "JIT" ELSE "BRANCH"

\* if (++flush_counter >= 100)                            r_jit.c:257
FlushDue(counter) == counter >= FLUSH_EVERY

\* R_JIT_FrameEnd; end is the clock reading of line 218.  Times are kept in
\* ticks instead of milliseconds.
R_JIT_FrameEnd(end) ==
    LET end_time == ClockGettime(end)
        elapsed_ms == ElapsedSince(end_time, frame_start_time)
        pstart == IF program_start.tv_sec = 0 THEN end_time ELSE program_start
        timestamp_ms == ElapsedSince(end_time, pstart)
        row == [kind |-> "row",
                mode |-> RowMode,
                timestamp |-> timestamp_ms, frame_time |-> elapsed_ms,
                draw_calls |-> jit_frame_calls]
        flush == FlushDue(flush_counter + 1)
    IN
    /\ clock' = end
    /\ program_start' = pstart
    /\ jit_stats' =
         IF CreditsJit
           THEN [jit_stats EXCEPT !.jit_frames = @ + 1,
                                  !.jit_calls = @ + jit_frame_calls,
                                  !.jit_time_ms = @ + elapsed_ms]
           ELSE [jit_stats EXCEPT !.branch_frames = @ + 1,
                                  !.branch_calls = @ + jit_frame_calls,
                                  !.branch_time_ms = @ + elapsed_ms]
    /\ IF LogOpen
         THEN /\ log_rows' = Append(log_rows, row)
              /\ flush_counter' = IF flush THEN 0 ELSE flush_counter + 1
              /\ log_flushed' = IF flush THEN Len(log_rows) + 1 ELSE log_flushed
         ELSE UNCHANGED <<log_rows, flush_counter, log_flushed>>
    /\ in_frame' = FALSE
    /\ hist' =
         [hist EXCEPT !.start_elapsed = -1,
                      !.exp =
                     IF hist.start_mode
                       THEN [@ EXCEPT !.jit_frames = @ + 1,
                                      !.jit_calls = @ + jit_frame_calls,
                                      !.jit_time_ms = @ + elapsed_ms]
                       ELSE [@ EXCEPT !.branch_frames = @ + 1,
                                      !.branch_calls = @ + jit_frame_calls,
                                      !.branch_time_ms = @ + elapsed_ms]]
    /\ UNCHANGED <<srv, arch, cpu, jit_mode_enabled, frame_start_time, jit_frame_calls,
                   last_switch_time, auto_switch_enabled, log_file>>
    /\ UNCHANGED genVars

\* what R_JIT_PrintStats prints: the mode, the auto-switch flag, the three
\* counters of each mode, each average (as total time over frames) when its
\* line is printed, and the speedup (as a ratio of the two averages, the
\* numerator and denominator multiplied out) when its line is printed;
\* <<>> stands for a line that is not printed           r_jit.c:124-163
PrintStatsOutput ==
    LET jit_shown == jit_stats.jit_frames > 0
        branch_shown == jit_stats.branch_frames > 0
        \* jit_avg > 0, with jit_avg = jit_time_ms / jit_frames
        jit_avg_positive == jit_stats.jit_time_ms > 0
    IN  [printed |-> TRUE,
         mode |-> IF jit_mode_enabled THEN "JIT" ELSE "BRANCHING",
         auto |-> IF auto_switch_enabled THEN "ON" ELSE "OFF",
         stats |-> jit_stats,
         jit_avg |-> IF jit_shown
                       THEN <<jit_stats.jit_time_ms, jit_stats.jit_frames>>
                       ELSE <<>>,
         branch_avg |-> IF branch_shown
                          THEN <<jit_stats.branch_time_ms, jit_stats.branch_frames>>
                          ELSE <<>>,
         speedup |-> IF jit_shown /\ branch_shown /\ jit_avg_positive
                       THEN <<jit_stats.branch_time_ms * jit_stats.jit_frames,
                              jit_stats.jit_time_ms * jit_stats.branch_frames>>
                       ELSE <<>>]

\* R_JIT_PrintStats: reads the state and writes to stdout only
R_JIT_PrintStats ==
    /\ hist' = [hist EXCEPT !.report = PrintStatsOutput]
    /\ UNCHANGED <<srv, arch, clock, cpu>>
    /\ UNCHANGED genVars
    /\ UNCHANGED frameVars

\* one column-draw call of the renderer: "Increment this in R_DrawColumn"
\*                                                        r_jit.h:24
R_DrawColumn ==
    /\ jit_frame_calls' = jit_frame_calls + 1
    /\ hist' = [hist EXCEPT !.since_start = @ + 1,
                         !.stray = @ \/ (~in_frame /\ hist.frames > 0)]
    /\ UNCHANGED <<srv, arch, clock, cpu, jit_stats, jit_mode_enabled, frame_start_time,
                   last_switch_time, auto_switch_enabled, log_file, log_rows,
                   log_flushed, flush_counter, program_start, in_frame>>
    /\ UNCHANGED genVars
-----------------------------------------------------------------------------
(* The benchmark reader: self_modifying.cpp:16-157 *)

\* "%llu": an unsigned integer as its decimal digits
RECURSIVE Decimal(_)
Decimal(n) == IF n < 10 THEN <<n>> ELSE Append(Decimal(n \div 10), n % 10)

\* a parser that keeps the last digit only
StoullLastDigit(ds) == IF ds = <<>> THEN 0 ELSE ds[Len(ds)]

\* std::stoull of a digit string
RECURSIVE Stoull(_)
Stoull(ds) ==
    IF ds = <<>> THEN 0 ELSE 10 * Stoull(SubSeq(ds, 1, Len(ds) - 1)) + ds[Len(ds)]

\* the line fprintf writes for a record: "%.2f,%s,%.4f,%llu\n"; the times
\* of the model are whole ticks, which the two formats write exactly
\*                                                        r_jit.c:251-253
CsvLine(row) ==
    IF row.kind = "header" THEN row
    ELSE [kind |-> "row", timestamp |-> row.timestamp, mode |-> row.mode,
          frame_time |-> row.frame_time, draw_calls |-> Decimal(row.draw_calls)]

\* the first n lines of jit_benchmark.csv
CsvFile(n) == [i \in 1..n |-> CsvLine(log_rows[i])]

\* readBenchmarkCSV: no entries when the file cannot be opened, else the
\* first line skipped and one BenchmarkEntry per further line
readBenchmarkCSV(lines) ==
    IF lines = <<>> THEN <<>>
    ELSE [i \in 1..(Len(lines) - 1) |->
            [timestamp_ms |-> lines[i + 1].timestamp,
             mode |-> lines[i + 1].mode,
             frame_time_ms |-> lines[i + 1].frame_time,
             draw_calls |-> Stoull(lines[i + 1].draw_calls)]]

\* the sums and the count of the loop of lines 91-101 over the entries the
\* test selects
RECURSIVE Totals(_, _, _)
Totals(entries, jit, i) ==
    IF i = 0 THEN [time |-> 0, calls |-> 0, frames |-> 0]
    ELSE LET t == Totals(entries, jit, i - 1)
             e == entries[i]
         IN  IF (e.mode = "JIT") = jit
               THEN [time |-> t.time + e.frame_time_ms,
                     calls |-> t.calls + e.draw_calls,
                     frames |-> t.frames + 1]
               ELSE t

\* the frame times of one raw_data array: lines 133-140 and 144-151
RECURSIVE RawFrames(_, _, _)
RawFrames(entries, mode, i) ==
    IF i = 0 THEN <<>>
    ELSE IF entries[i].mode = mode
           THEN Append(RawFrames(entries, mode, i - 1), entries[i].frame_time_ms)
           ELSE RawFrames(entries, mode, i - 1)

\* what selfModifyingCodeExperiment returns for the lines of the file; an
\* average is kept as <<total time, frames>> and the speedup as a ratio of
\* the two averages multiplied out
ExperimentJson(lines) ==
    LET entries == readBenchmarkCSV(lines)
        jit == Totals(entries, TRUE, Len(entries))
        branch == Totals(entries, FALSE, Len(entries))
    IN  IF entries = <<>>
          THEN [ran |-> TRUE, error |-> TRUE]
          ELSE [ran |-> TRUE, error |-> FALSE,
                total_entries |-> Len(entries),
                jit |-> [frames |-> jit.frames, total_time_ms |-> jit.time,
                         avg_frame_time_ms |-> IF jit.frames > 0
                                                 THEN <<jit.time, jit.frames>>
                                                 ELSE <<0, 1>>,
                         total_draw_calls |-> jit.calls],
                branching |-> [frames |-> branch.frames,
                               total_time_ms |-> branch.time,
                               avg_frame_time_ms |-> IF branch.frames > 0
                                                       THEN <<branch.time, branch.frames>>
                                                       ELSE <<0, 1>>,
                               total_draw_calls |-> branch.calls],
                speedup |-> IF jit.frames > 0 /\ jit.time > 0 /\ branch.frames > 0
                              THEN <<branch.time * jit.frames,
                                     jit.time * branch.frames>>
                              ELSE <<0, 1>>,
                raw_data |-> [jit_frames |-> RawFrames(entries, "JIT", Len(entries)),
                              branch_frames |-> RawFrames(entries, "BRANCH",
                                                          Len(entries))]]

\* selfModifyingCodeExperiment run on the log while the file holds its first
\* n lines: all of them once the log is closed, at least the flushed ones
\* while it is open
selfModifyingCodeExperiment(n) ==
    /\ n \in log_flushed..Len(log_rows)
    /\ log_file \/ n = Len(log_rows)
    /\ hist' = [Record(hist, Op("experiment", NULL, [lines |-> n]))
                  EXCEPT !.result = ExperimentJson(CsvFile(n))]
    /\ UNCHANGED <<srv, arch, clock, cpu>>
    /\ UNCHANGED genVars
    /\ UNCHANGED frameVars

-----------------------------------------------------------------------------
(* Data memory seen by the generated code *)

SCREENWIDTH == 320

SourceBase == <<\hff80, \h2fff, \h0001, 0>>
DestBase == <<\hff00, \h5fff, \h0001, 0>>
StackTop == <<\hfff0, \hffff, \h7ffe, 0>>
RetAddr == <<\h1234, \h0040, 0, 0>>

\* contents of the 128-byte source column, by pattern number
SourceByte(pat, i) == IF pat = 1 THEN (2 * i + 1) % 256 ELSE 200 - i

\* contents of the 256-byte colormap table at address base
CmapByte(base, t) ==
    IF base = CmapA THEN 255 - t
    ELSE IF base = CmapB THEN (t + 17) % 256
    ELSE (5 * t + 3) % 256

InRegion(addr, base, size) ==
    LET off == Sub64(addr, base)
    IN  off[2] = 0 /\ off[3] = 0 /\ off[4] = 0 /\ off[1] < size

\* a byte load: the byte, or -1 when the address is in no readable table
LoadByte(addr, pat) ==
    IF InRegion(addr, SourceBase, 128)
      THEN SourceByte(pat, Sub64(addr, SourceBase)[1])
    ELSE IF \E b \in CmapAddrs : InRegion(addr, b, 256)
      THEN LET b == CHOOSE c \in CmapAddrs : InRegion(addr, c, 256)
           IN  CmapByte(b, Sub64(addr, b)[1])
    ELSE -1

-----------------------------------------------------------------------------
(* ARM64 (A64) instruction decoding, for the instruction classes emitted *)

SignExt(v, bits) == IF v >= Pow2(bits - 1) THEN v - Pow2(bits) ELSE v

ArmDecode(w) ==
    LET rd == Bits(w, 4, 0)
        rn == Bits(w, 9, 5)
        rm == Bits(w, 20, 16)
        sf == Bits(w, 31, 31)
    IN
    IF w = W(\hd65f, \h03c0) THEN [op |-> "ret"]
    ELSE IF Bits(w, 31, 30) = 2 /\ Bits(w, 29, 27) = 5 /\ Bits(w, 26, 26) = 0
            /\ Bits(w, 25, 23) \in {1, 3}
      THEN [op |-> IF Bits(w, 22, 22) = 1 THEN "ldp" ELSE "stp",
            pre |-> Bits(w, 25, 23) = 3,
            imm |-> 8 * SignExt(Bits(w, 21, 15), 7),
            rt |-> rd, rt2 |-> Bits(w, 14, 10), rn |-> rn]
    ELSE IF Bits(w, 28, 23) = 37 /\ sf = 1 /\ Bits(w, 30, 29) \in {2, 3}
      THEN [op |-> IF Bits(w, 30, 29) = 2 THEN "movz" ELSE "movk",
            hw |-> Bits(w, 22, 21), imm |-> Bits(w, 20, 5), rd |-> rd]
    ELSE IF Bits(w, 28, 24) = 10 /\ Bits(w, 30, 29) = 1 /\ Bits(w, 21, 21) = 0
            /\ Bits(w, 23, 22) = 0 /\ Bits(w, 15, 10) = 0
      THEN [op |-> "orr", sf |-> sf, rd |-> rd, rn |-> rn, rm |-> rm]
    ELSE IF Bits(w, 28, 23) = 38 /\ Bits(w, 30, 29) = 2 /\ sf = 0
            /\ Bits(w, 22, 22) = 0
      THEN [op |-> "ubfm", immr |-> Bits(w, 21, 16), imms |-> Bits(w, 15, 10),
            rd |-> rd, rn |-> rn]
    ELSE IF Bits(w, 28, 23) = 36 /\ Bits(w, 30, 29) = 0 /\ sf = 0
            /\ Bits(w, 22, 22) = 0
      THEN [op |-> "and_imm", immr |-> Bits(w, 21, 16), imms |-> Bits(w, 15, 10),
            rd |-> rd, rn |-> rn]
    ELSE IF Bits(w, 31, 30) = 0 /\ Bits(w, 29, 27) = 7 /\ Bits(w, 26, 26) = 0
            /\ Bits(w, 25, 24) = 0 /\ Bits(w, 23, 22) = 1 /\ Bits(w, 21, 21) = 1
            /\ Bits(w, 11, 10) = 2 /\ Bits(w, 15, 13) \in {2, 3}
            /\ Bits(w, 12, 12) = 0
      THEN [op |-> "ldrb_reg", wide |-> Bits(w, 15, 13) = 3,
            rt |-> rd, rn |-> rn, rm |-> rm]
    ELSE IF Bits(w, 31, 30) = 0 /\ Bits(w, 29, 27) = 7 /\ Bits(w, 26, 26) = 0
            /\ Bits(w, 25, 24) = 1 /\ Bits(w, 23, 22) = 0
      THEN [op |-> "strb_imm", imm |-> Bits(w, 21, 10), rt |-> rd, rn |-> rn]
    ELSE IF Bits(w, 28, 24) = 11 /\ Bits(w, 30, 29) = 0 /\ Bits(w, 21, 21) = 0
            /\ Bits(w, 23, 22) = 0 /\ Bits(w, 15, 10) = 0
      THEN [op |-> "add_reg", sf |-> sf, rd |-> rd, rn |-> rn, rm |-> rm]
    ELSE IF Bits(w, 28, 23) = 34 /\ Bits(w, 30, 29) = 3 /\ sf = 0
            /\ Bits(w, 22, 22) = 0
      THEN [op |-> "subs_imm", imm |-> Bits(w, 21, 10), rd |-> rd, rn |-> rn]
    ELSE IF Bits(w, 31, 24) = 84 /\ Bits(w, 4, 4) = 0
      THEN [op |-> "b_cond", cond |-> Bits(w, 3, 0),
            off |-> 4 * SignExt(Bits(w, 23, 5), 19)]
    ELSE [op |-> "undefined"]

\* DecodeBitMasks for a 32-bit logical immediate with N = 0: bit i of the mask
MaskBit(immr, imms, i) ==
    LET len == CHOOSE k \in 1..5 :
                   /\ BitsLo(63 - imms, k, k) = 1
                   /\ \A j \in (k + 1)..5 : BitsLo(63 - imms, j, j) = 0
        esize == Pow2(len)
        S == imms % esize
        R == immr % esize
    IN  ((i % esize) + R) % esize <= S

RECURSIVE SumBits(_, _, _, _)
\* sum of 2^(i - lo) over the i in lo..hi with f[i]
SumBits(f, lo, i, hi) ==
    IF i > hi THEN 0
    ELSE (IF f[i] THEN Pow2(i - lo) ELSE 0) + SumBits(f, lo, i + 1, hi)

LogicalImm32(immr, imms) ==
    LET f == [i \in 0..31 |-> MaskBit(immr, imms, i)]
    IN  <<SumBits(f, 0, 0, 15), SumBits(f, 16, 16, 31)>>

And32(a, b) == <<BitAnd16(a[1], b[1]), BitAnd16(a[2], b[2])>>

BitAt32(w, i) == IF i < 16 THEN BitsLo(w[1], i, i) = 1 ELSE BitsLo(w[2], i - 16, i - 16) = 1

\* UBFM Wd, Wn, #immr, #imms
Ubfm32(v, immr, imms) ==
    IF imms >= immr
      THEN \* UBFX: bits immr..imms moved to bit 0
           LET f == [i \in 0..31 |-> i + immr <= imms /\ BitAt32(v, i + immr)]
           IN  <<SumBits(f, 0, 0, 15), SumBits(f, 16, 16, 31)>>
      ELSE \* UBFIZ: bits 0..imms moved to bit 32 - immr
           LET f == [i \in 0..31 |-> /\ i >= 32 - immr
                                     /\ i - (32 - immr) <= imms
                                     /\ BitAt32(v, i - (32 - immr))]
           IN  <<SumBits(f, 0, 0, 15), SumBits(f, 16, 16, 31)>>
-----------------------------------------------------------------------------
(* Processor state and ARM64 execution *)

\* registers 0..30 are x0..x30 and 31 is sp (ARM64); 0..15 are rax, rcx, rdx,
\* rbx, rsp, rbp, rsi, rdi, r8..r15 (x86_64)
RegIds == 0..31

CpuIdle == [status |-> "idle", pc |-> 0, regs |-> [r \in RegIds |-> NULL],
            n |-> FALSE, z |-> FALSE, v |-> FALSE,
            stack |-> <<>>, mem |-> <<>>, args |-> <<>>, saved |-> <<>>,
            insns |-> 0, iters |-> 0, calls |-> 0]

Fault(c) == [c EXCEPT !.status = "fault"]

BufByte(buf, i) == IF i >= 0 /\ i < Len(buf) THEN buf[i + 1] ELSE 0

\* the 32-bit little-endian word at byte offset pc
FetchWord(buf, pc) ==
    <<BufByte(buf, pc) + 256 * BufByte(buf, pc + 1),
      BufByte(buf, pc + 2) + 256 * BufByte(buf, pc + 3)>>

Or64(a, b) == [k \in 1..4 |-> BitOr16(a[k], b[k])]

\* register 31 read as the zero register
RegZ(c, r) == IF r = 31 THEN NULL ELSE c.regs[r]
\* register 31 written as the zero register
SetRegZ(c, r, val) == IF r = 31 THEN c ELSE [c EXCEPT !.regs[r] = val]

Next4(c) == [c EXCEPT !.pc = @ + 4, !.insns = @ + 1]

Neg32(imm) == Low32(Neg64(Small64(imm)))

AddSigned64(a, k) == IF k >= 0 THEN Add64(a, Small64(k)) ELSE Sub64(a, Small64(0 - k))

\* outcomes of LDP Xt, Xt2 with t = t2, which is CONSTRAINED UNPREDICTABLE:
\* UNDEFINED, a NOP, or the loads done with the register left UNKNOWN
LdpSameRegister(c, d, addr, wb) ==
    {Fault(c), Next4(c)}
    \cup {Next4([c EXCEPT !.regs = [@ EXCEPT ![d.rn] = wb, ![d.rt] = u]]) :
            u \in {c.stack[addr], c.stack[Add64(addr, Small64(8))], NULL}}

\* the possible successors of one ARM64 instruction
ArmStep(buf, c) ==
    LET d == ArmDecode(FetchWord(buf, c.pc))
    IN
    CASE d.op = "ret" -> {[c EXCEPT !.status = "returned", !.insns = @ + 1]}
      [] d.op = "stp" ->
           LET base == c.regs[d.rn]
               wb == AddSigned64(base, d.imm)
               addr == IF d.pre THEN wb ELSE base
           IN  {Next4([c EXCEPT
                  !.stack = (addr :> RegZ(c, d.rt))
                            @@ (Add64(addr, Small64(8)) :> RegZ(c, d.rt2)) @@ @,
                  !.regs[d.rn] = wb])}
      [] d.op = "ldp" ->
           LET base == c.regs[d.rn]
               wb == AddSigned64(base, d.imm)
               addr == IF d.pre THEN wb ELSE base
               addr2 == Add64(addr, Small64(8))
           IN  IF addr \notin DOMAIN c.stack \/ addr2 \notin DOMAIN c.stack
                 THEN {Fault(c)}
               ELSE IF d.rt = d.rt2 THEN LdpSameRegister(c, d, addr, wb)
               ELSE {Next4(SetRegZ(SetRegZ([c EXCEPT !.regs[d.rn] = wb],
                                           d.rt, c.stack[addr]),
                                   d.rt2, c.stack[addr2]))}
      [] d.op = "movz" ->
           {Next4(SetRegZ(c, d.rd, [k \in 1..4 |-> IF k = d.hw + 1 THEN d.imm ELSE 0]))}
      [] d.op = "movk" ->
           {Next4(SetRegZ(c, d.rd, [RegZ(c, d.rd) EXCEPT ![d.hw + 1] = d.imm]))}
      [] d.op = "orr" ->
           LET r == Or64(RegZ(c, d.rn), RegZ(c, d.rm))
           IN  {Next4(SetRegZ(c, d.rd, IF d.sf = 1 THEN r ELSE Zext32(Low32(r))))}
      [] d.op = "ubfm" ->
           {Next4(SetRegZ(c, d.rd,
                          Zext32(Ubfm32(Low32(RegZ(c, d.rn)), d.immr, d.imms))))}
      [] d.op = "and_imm" ->
           {Next4(SetRegZ(c, d.rd,
                          Zext32(And32(Low32(RegZ(c, d.rn)),
                                       LogicalImm32(d.immr, d.imms)))))}
      [] d.op = "ldrb_reg" ->
           LET idx == IF d.wide THEN RegZ(c, d.rm) ELSE Zext32(Low32(RegZ(c, d.rm)))
               b == LoadByte(Add64(c.regs[d.rn], idx), c.args.pat)
           IN  IF b < 0 THEN {Fault(c)} ELSE {Next4(SetRegZ(c, d.rt, Small64(b)))}
      [] d.op = "strb_imm" ->
           LET addr == Add64(c.regs[d.rn], Small64(d.imm))
           IN  {Next4([c EXCEPT !.mem = (addr :> RegZ(c, d.rt)[1] % 256) @@ @,
                                !.iters = @ + 1])}
      [] d.op = "add_reg" ->
           LET a == RegZ(c, d.rn)
               b == RegZ(c, d.rm)
           IN  {Next4(SetRegZ(c, d.rd, IF d.sf = 1 THEN Add64(a, b)
                                       ELSE Zext32(Add32(Low32(a), Low32(b)))))}
      [] d.op = "subs_imm" ->
           LET a == Low32(c.regs[d.rn])
               r == Add32(a, Neg32(d.imm))
           IN  {Next4([SetRegZ(c, d.rd, Zext32(r)) EXCEPT
                         !.n = r[2] >= 32768,
                         !.z = (r = <<0, 0>>),
                         !.v = (a[2] >= 32768 /\ r[2] < 32768)])}
      [] d.op = "b_cond" ->
           LET taken == CASE d.cond = 10 -> c.n = c.v
                          [] d.cond = 11 -> c.n # c.v
                          [] d.cond = 0 -> c.z
                          [] d.cond = 1 -> ~c.z
                          [] d.cond = 4 -> c.n
                          [] d.cond = 5 -> ~c.n
                          [] OTHER -> FALSE
           IN  IF d.cond \notin {0, 1, 4, 5, 10, 11} THEN {Fault(c)}
               ELSE {[c EXCEPT !.pc = IF taken THEN @ + d.off ELSE @ + 4,
                               !.insns = @ + 1]}
      [] OTHER -> {Fault(c)}
-----------------------------------------------------------------------------
(* x86_64 instruction decoding and execution, for the forms in the template *)

RSP == 4

X86Decode(buf, pc) ==
    LET b0 == BufByte(buf, pc)
        hasRex == b0 >= 64 /\ b0 <= 79
        rex == IF hasRex THEN b0 - 64 ELSE 0
        rexW == (rex \div 8) % 2
        rexR == (rex \div 4) % 2
        rexX == (rex \div 2) % 2
        rexB == rex % 2
        o == IF hasRex THEN pc + 1 ELSE pc
        pl == o - pc
        opc == BufByte(buf, o)
        modrm == BufByte(buf, o + 1)
        mod == modrm \div 64
        reg == (modrm \div 8) % 8
        rm == modrm % 8
        m2 == BufByte(buf, o + 2)
        sib == BufByte(buf, o + 3)
    IN
    IF opc >= 80 /\ opc <= 87
      THEN [op |-> "push", r |-> opc - 80 + 8 * rexB, len |-> pl + 1]
    ELSE IF opc >= 88 /\ opc <= 95
      THEN [op |-> "pop", r |-> opc - 88 + 8 * rexB, len |-> pl + 1]
    ELSE IF opc >= 184 /\ opc <= 191
      THEN IF rexW = 1
             THEN [op |-> "mov_imm", r |-> opc - 184 + 8 * rexB, len |-> pl + 9,
                   imm |-> [k \in 1..4 |-> BufByte(buf, o + 2 * k - 1)
                                           + 256 * BufByte(buf, o + 2 * k)]]
             ELSE [op |-> "mov_imm", r |-> opc - 184 + 8 * rexB, len |-> pl + 5,
                   imm |-> <<BufByte(buf, o + 1) + 256 * BufByte(buf, o + 2),
                             BufByte(buf, o + 3) + 256 * BufByte(buf, o + 4), 0, 0>>]
    ELSE IF opc = 137 /\ mod = 3
      THEN [op |-> "mov_rr", dst |-> rm + 8 * rexB, src |-> reg + 8 * rexR,
            wide |-> rexW = 1, len |-> pl + 2]
    ELSE IF opc = 193 /\ mod = 3 /\ reg = 5 /\ rexW = 0
      THEN [op |-> "shr", dst |-> rm + 8 * rexB, imm |-> m2 % 32, len |-> pl + 3]
    ELSE IF opc = 131 /\ mod = 3 /\ reg = 4 /\ rexW = 0
      THEN [op |-> "and_imm8", dst |-> rm + 8 * rexB, imm |-> m2, len |-> pl + 3]
    ELSE IF opc = 15 /\ modrm = 182 /\ m2 \div 64 = 0 /\ m2 % 8 = 4
            /\ sib \div 64 = 0 /\ sib % 8 # 5
            /\ ((sib \div 8) % 8) + 8 * rexX # 4
      THEN [op |-> "movzx_b", dst |-> ((m2 \div 8) % 8) + 8 * rexR,
            base |-> (sib % 8) + 8 * rexB, index |-> ((sib \div 8) % 8) + 8 * rexX,
            len |-> pl + 4]
    ELSE IF opc = 136 /\ mod = 0 /\ rm \notin {4, 5} /\ (hasRex \/ reg < 4)
      THEN [op |-> "mov_store_b", base |-> rm + 8 * rexB, src |-> reg + 8 * rexR,
            len |-> pl + 2]
    ELSE IF opc = 1 /\ mod = 3
      THEN [op |-> "add_rr", dst |-> rm + 8 * rexB, src |-> reg + 8 * rexR,
            wide |-> rexW = 1, len |-> pl + 2]
    ELSE IF opc = 255 /\ mod = 3 /\ reg = 1 /\ rexW = 0
      THEN [op |-> "dec", dst |-> rm + 8 * rexB, len |-> pl + 2]
    ELSE IF opc \in {120, 121}
      THEN [op |-> IF opc = 121 THEN "jns" ELSE "js",
            rel |-> SignExt(BufByte(buf, o + 1), 8), len |-> pl + 2]
    ELSE IF opc = 195 THEN [op |-> "ret", len |-> pl + 1]
    ELSE [op |-> "undefined"]

Msb32(w) == w[2] >= 32768
Msb64(v) == v[4] >= 32768

\* the possible successors of one x86_64 instruction
X86Step(buf, c) ==
    LET d == X86Decode(buf, c.pc)
        adv(cc) == [cc EXCEPT !.pc = @ + d.len, !.insns = @ + 1]
        logic(cc, r) == [cc EXCEPT !.n = Msb32(r), !.z = (r = <<0, 0>>), !.v = FALSE]
    IN
    CASE d.op = "push" ->
           LET sp == Sub64(c.regs[RSP], Small64(8))
           IN  {adv([c EXCEPT !.stack = (sp :> c.regs[d.r]) @@ @, !.regs[RSP] = sp])}
      [] d.op = "pop" ->
           IF c.regs[RSP] \notin DOMAIN c.stack THEN {Fault(c)}
           ELSE {adv([c EXCEPT !.regs = [@ EXCEPT ![RSP] = Add64(c.regs[RSP], Small64(8)),
                                                  ![d.r] = c.stack[c.regs[RSP]]]])}
      [] d.op = "mov_imm" -> {adv([c EXCEPT !.regs[d.r] = d.imm])}
      [] d.op = "mov_rr" ->
           {adv([c EXCEPT !.regs[d.dst] = IF d.wide THEN c.regs[d.src]
                                          ELSE Zext32(Low32(c.regs[d.src]))])}
      [] d.op = "shr" ->
           LET r == IF d.imm = 0 THEN Low32(c.regs[d.dst])
                    ELSE Ubfm32(Low32(c.regs[d.dst]), d.imm, 31)
           IN  {adv(logic([c EXCEPT !.regs[d.dst] = Zext32(r)], r))}
      [] d.op = "and_imm8" ->
           LET m == IF d.imm < 128 THEN <<d.imm, 0>> ELSE <<65280 + d.imm, 65535>>
               r == And32(Low32(c.regs[d.dst]), m)
           IN  {adv(logic([c EXCEPT !.regs[d.dst] = Zext32(r)], r))}
      [] d.op = "movzx_b" ->
           LET b == LoadByte(Add64(c.regs[d.base], c.regs[d.index]), c.args.pat)
           IN  IF b < 0 THEN {Fault(c)}
               ELSE {adv([c EXCEPT !.regs[d.dst] = Small64(b)])}
      [] d.op = "mov_store_b" ->
           {adv([c EXCEPT !.mem = (c.regs[d.base] :> c.regs[d.src][1] % 256) @@ @,
                          !.iters = @ + 1])}
      [] d.op = "add_rr" ->
           LET a == c.regs[d.dst]
               b == c.regs[d.src]
               r == IF d.wide THEN Add64(a, b) ELSE Zext32(Add32(Low32(a), Low32(b)))
               sa == IF d.wide THEN Msb64(a) ELSE Msb32(Low32(a))
               sb == IF d.wide THEN Msb64(b) ELSE Msb32(Low32(b))
               sr == IF d.wide THEN Msb64(r) ELSE Msb32(Low32(r))
           IN  {adv([c EXCEPT !.regs[d.dst] = r, !.n = sr, !.z = (r = NULL),
                              !.v = (sa = sb /\ sr # sa)])}
      [] d.op = "dec" ->
           LET a == Low32(c.regs[d.dst])
               r == Add32(a, Neg32(1))
           IN  {adv([c EXCEPT !.regs[d.dst] = Zext32(r), !.n = Msb32(r),
                              !.z = (r = <<0, 0>>),
                              !.v = (Msb32(a) /\ ~Msb32(r))])}
      [] d.op \in {"jns", "js"} ->
           LET taken == IF d.op = "jns" THEN ~c.n ELSE c.n
           IN  {[c EXCEPT !.pc = @ + d.len + (IF taken THEN d.rel ELSE 0),
                          !.insns = @ + 1]}
      [] d.op = "ret" ->
           IF c.regs[RSP] \notin DOMAIN c.stack THEN {Fault(c)}
           ELSE {[c EXCEPT !.status = "returned", !.insns = @ + 1,
                           !.regs[RSP] = Add64(c.regs[RSP], Small64(8))]}
      [] OTHER -> {Fault(c)}
-----------------------------------------------------------------------------
(* Calling the generated code *)

\* instructions executed in one call before the model stops following it
MaxInsns == 70
\* values the caller's registers hold before a call
Canary(r) == <<49152 + r, \hcafe, \h0bad, \hf00d>>

\* registers on entry: the six arguments in the argument registers of the
\* platform's calling convention (r_jit.c:298-299; System V for x86_64)
EntryRegs(a, base, args) ==
    IF IsArm(a)
      THEN [base EXCEPT ![0] = args.dest, ![1] = args.source,
                        ![2] = args.colormap, ![3] = Zext32(args.count),
                        ![4] = Zext32(args.fracstep), ![5] = Zext32(args.frac),
                        ![30] = RetAddr, ![31] = StackTop]
      ELSE [base EXCEPT ![7] = args.dest, ![6] = args.source,
                        ![2] = args.colormap, ![1] = Zext32(args.count),
                        ![8] = Zext32(args.fracstep), ![9] = Zext32(args.frac),
                        ![RSP] = Sub64(StackTop, Small64(8))]

\* the caller's registers before a call
CallerRegs(a) ==
    [[r \in RegIds |-> Canary(r)] EXCEPT ![IF IsArm(a) THEN 31 ELSE RSP] = StackTop]

\* the processor at the first instruction of the generated code
EntryCpu(a, args) ==
    [status |-> "running", pc |-> 0,
     regs |-> EntryRegs(a, CallerRegs(a), args),
     n |-> FALSE, z |-> FALSE, v |-> FALSE,
     stack |-> IF IsArm(a) THEN <<>>
               ELSE (Sub64(StackTop, Small64(8)) :> RetAddr),
     mem |-> <<>>, args |-> args, saved |-> CallerRegs(a),
     insns |-> 0, iters |-> 0, calls |-> 1]

\* the caller fetched R_JIT_GetDrawColumn() and calls through it
CallCompiled(args) ==
    /\ cpu.status \in {"idle", "returned"}
    /\ R_JIT_GetDrawColumn # NULL
    /\ LET pre == CallerRegs(arch)
       IN  cpu' =
             IF \/ jit_compiled_fn # jit_code
                \/ ~Executable(jit_prot)
                \/ icache_stale
               THEN \* a jump into unmapped memory or into stale instructions
                    [CpuIdle EXCEPT !.status = "undefined", !.calls = 1,
                                    !.args = args, !.saved = pre]
               ELSE EntryCpu(arch, args)
    /\ UNCHANGED <<srv, arch, clock, hist>>
    /\ UNCHANGED genVars
    /\ UNCHANGED frameVars

\* the possible successors of one instruction on the build's processor
CpuStep(a, buf, c) == IF IsArm(a) THEN ArmStep(buf, c) ELSE X86Step(buf, c)

\* the processor executes the instruction at pc
ExecStep ==
    /\ cpu.status = "running"
    /\ cpu.insns < MaxInsns
    /\ cpu' \in CpuStep(arch, jit_buf, cpu)
    /\ UNCHANGED <<srv, arch, clock, hist>>
    /\ UNCHANGED genVars
    /\ UNCHANGED frameVars

-----------------------------------------------------------------------------
(* The WebSocket server: server.cpp:260-421, and the cancel flag of the   *)
(* experiments: common.hpp:412-427, memory_stratification.cpp:77-97.  One *)
(* handleClient thread serves each connection; during an execute command  *)
(* a listener thread reads the same socket.  All threads share the one    *)
(* flag cancelExperiment.                                                 *)

\* connections the server has accepted                    server.cpp:512-514
Clients == {1, 2}
\* messages one client sends
MaxSends == 3
\* iterations of the main loop of one experiment
MaxSteps == 2

Messages == {"execute", "cancel", "close", "list"}

\* a connection after the handshake: sock holds the frames sent and not yet
\* read; main is the position of handleClient, listener the position of the
\* listener thread, exp the position of the experiment the handler runs and
\* left the iterations the experiment still has to do.
\* acked_setup / acked_loop: the listener sent the acknowledgement of a
\* cancel while the experiment was before / after its reset of the flag;
\* set_loop: the listener wrote the flag while the experiment was in its
\* loop; asked: this client sent a cancel or a close that was read during
\* the running execute.
IdleClient ==
    [sock |-> <<>>, sent |-> 0, closing |-> FALSE, main |-> "recv",
     listener |-> "off", exp |-> "none", left |-> 0, result |-> "none",
     acked_setup |-> FALSE, acked_loop |-> FALSE, set_loop |-> FALSE,
     asked |-> FALSE, response |-> "none"]

InitSrv == [cancelExperiment |-> FALSE, client |-> [c \in Clients |-> IdleClient]]

\* the state of r_jit.c, which the server does not touch
jitVars == <<arch, clock, cpu, hist, genVars, frameVars>>

\* setCancelExperiment / isCancelled                  common.hpp:418-427
setCancelExperiment(s, cancel) == [s EXCEPT !.cancelExperiment = cancel]
isCancelled == srv.cancelExperiment

\* one recv returns the first n frames waiting in the socket; decodeFrame
\* decodes the frame at the start of the buffer and the rest of the buffer
\* is dropped                            server.cpp:150-190, 324, 387
Decoded(sock, n) == sock[1]
AfterRecv(sock, n) == SubSeq(sock, n + 1, Len(sock))

\* the client sends a frame
ClientSend(c, m) ==
    LET cl == srv.client[c] IN
    /\ cl.sent < MaxSends
    /\ ~cl.closing
    /\ cl.main # "closed"
    /\ srv' = [srv EXCEPT !.client[c] =
                 [cl EXCEPT !.sock = Append(@, m), !.sent = @ + 1,
                            !.closing = (m = "close")]]
    /\ UNCHANGED jitVars

\* handleClient reads in its main loop and processes the decoded frame; an
\* execute command starts the listener thread and calls the function.
\* A cancel command writes the flag and leaves its response to be sent; the
\* other commands touch nothing shared before their response is sent.
\* steps = 0: the command returns before the experiment's reset of the flag
\* (no function name, a function that is not registered, or malloc64
\* failing); otherwise the experiment's loop has steps iterations
\*          server.cpp:386-412, 260-298; common.hpp:376-382;
\*          memory_stratification.cpp:45-49
HandleMessage(c, n, steps) ==
    LET cl == srv.client[c]
        m == Decoded(cl.sock, n)
        rest == AfterRecv(cl.sock, n)
    IN
    /\ cl.main = "recv"
    /\ cl.sock # <<>>
    /\ n \in 1..Len(cl.sock)
    /\ m # "execute" => steps = 1
    /\ srv' =
         CASE m = "close" ->
                [srv EXCEPT !.client[c] = [cl EXCEPT !.sock = rest,
                                                     !.main = "closed"]]
           [] m = "execute" ->
                [srv EXCEPT !.client[c] =
                   [cl EXCEPT !.sock = rest, !.main = "experiment",
                              !.listener = "on",
                              !.exp = IF steps = 0 THEN "returned" ELSE "setup",
                              !.left = steps,
                              !.result = IF steps = 0 THEN "error" ELSE "none",
                              !.acked_setup = FALSE, !.acked_loop = FALSE,
                              !.set_loop = FALSE, !.asked = FALSE]]
           [] m = "cancel" ->
                [setCancelExperiment(srv, TRUE) EXCEPT !.client[c] =
                   [cl EXCEPT !.sock = rest, !.main = "send"]]
           [] OTHER ->
                [srv EXCEPT !.client[c] = [cl EXCEPT !.sock = rest,
                                                     !.response = "list"]]
    /\ UNCHANGED jitVars

\* handleClient sends the response of a cancel command: a blocking send
\* after processCommand has written the flag, and then the next recv
\*                                                 server.cpp:420, 386-387
HandlerSends(c) ==
    LET cl == srv.client[c] IN
    /\ cl.main = "send"
    /\ srv' = [srv EXCEPT !.client[c] =
                 [cl EXCEPT !.main = "recv", !.response = "cancelling"]]
    /\ UNCHANGED jitVars

\* the experiment resets the flag before its main loop
\*                                        memory_stratification.cpp:77-78
ExperimentReset(c) ==
    LET cl == srv.client[c] IN
    /\ cl.exp = "setup"
    /\ srv' = [setCancelExperiment(srv, FALSE) EXCEPT !.client[c].exp = "loop"]
    /\ UNCHANGED jitVars

\* one iteration of the main loop: the cancellation check, then the
\* measurement                            memory_stratification.cpp:92-97
ExperimentStep(c) ==
    LET cl == srv.client[c] IN
    /\ cl.exp = "loop"
    /\ srv' = [srv EXCEPT !.client[c] =
                 IF isCancelled
                   THEN [cl EXCEPT !.exp = "returned", !.result = "cancelled"]
                   ELSE IF cl.left = 1
                          THEN [cl EXCEPT !.exp = "returned", !.left = 0,
                                          !.result = "completed"]
                          ELSE [cl EXCEPT !.left = @ - 1]]
    /\ UNCHANGED jitVars

\* the listener thread reads and decodes a frame: a close frame sets the
\* flag and ends the thread, a cancel sets the flag and leaves the
\* acknowledgement to be sent, anything else is dropped
\*                                                 server.cpp:323-341
ListenerReceive(c, n) ==
    LET cl == srv.client[c]
        m == Decoded(cl.sock, n)
        rest == AfterRecv(cl.sock, n)
        running == cl.exp \in {"setup", "loop"}
    IN
    /\ cl.listener = "on"
    /\ cl.sock # <<>>
    /\ n \in 1..Len(cl.sock)
    /\ srv' =
         CASE m = "close" ->
                [setCancelExperiment(srv, TRUE) EXCEPT !.client[c] =
                   [cl EXCEPT !.sock = rest, !.listener = "exited",
                              !.set_loop = @ \/ cl.exp = "loop",
                              !.asked = @ \/ running]]
           [] m = "cancel" ->
                [setCancelExperiment(srv, TRUE) EXCEPT !.client[c] =
                   [cl EXCEPT !.sock = rest, !.listener = "ack",
                              !.set_loop = @ \/ cl.exp = "loop",
                              !.asked = @ \/ running]]
           [] OTHER ->
                [srv EXCEPT !.client[c].sock = rest]
    /\ UNCHANGED jitVars

\* the listener sends the acknowledgement of the cancel it has read: a
\* blocking send, after which it is back at the top of its loop
\*                                                 server.cpp:342-343
ListenerAck(c) ==
    LET cl == srv.client[c] IN
    /\ cl.listener = "ack"
    /\ srv' = [srv EXCEPT !.client[c] =
                 [cl EXCEPT !.listener = "on", !.response = "cancelling",
                            !.acked_setup = @ \/ cl.exp = "setup",
                            !.acked_loop = @ \/ cl.exp = "loop"]]
    /\ UNCHANGED jitVars

\* processCommand has returned: stopListener = true    server.cpp:414-417
HandlerStopsListener(c) ==
    LET cl == srv.client[c] IN
    /\ cl.main = "experiment"
    /\ cl.exp = "returned"
    /\ srv' = [srv EXCEPT !.client[c].main = "join"]
    /\ UNCHANGED jitVars

\* the listener sees the stop flag at the top of its loop    server.cpp:323
ListenerExits(c) ==
    LET cl == srv.client[c] IN
    /\ cl.listener = "on"
    /\ cl.main = "join"
    /\ srv' = [srv EXCEPT !.client[c].listener = "exited"]
    /\ UNCHANGED jitVars

\* pthread_join returns and the response is sent       server.cpp:417-420
HandlerJoins(c) ==
    LET cl == srv.client[c] IN
    /\ cl.main = "join"
    /\ cl.listener = "exited"
    /\ srv' = [srv EXCEPT !.client[c] =
                 [cl EXCEPT !.main = "recv", !.listener = "off",
                            !.exp = "none", !.response = cl.result]]
    /\ UNCHANGED jitVars

\* the peer has gone: recv returns 0 in the main loop   server.cpp:387-388
HandlerPeerGone(c) ==
    LET cl == srv.client[c] IN
    /\ cl.main = "recv"
    /\ cl.closing
    /\ cl.sock = <<>>
    /\ srv' = [srv EXCEPT !.client[c].main = "closed"]
    /\ UNCHANGED jitVars

-----------------------------------------------------------------------------
(* Initial state: the static initialisers of r_jit.c, before R_JIT_Init *)

Init ==
    /\ arch \in Archs
    /\ clock = TicksPerSec
    /\ jit_code = NULL
    /\ jit_prot = "none"
    /\ jit_buf = <<>>
    /\ icache_stale = FALSE
    /\ gen_steps = <<>>
    /\ jit_compiled_fn = NULL
    /\ jit_current_colormap = NULL
    /\ jit_stats = ZeroStats
    /\ jit_mode_enabled = FALSE
    /\ frame_start_time = ZeroTime
    /\ jit_frame_calls = 0
    /\ last_switch_time = ZeroTime
    /\ auto_switch_enabled = TRUE
    /\ log_file = FALSE
    /\ log_rows = <<>>
    /\ log_flushed = 0
    /\ flush_counter = 0
    /\ program_start = ZeroTime
    /\ in_frame = FALSE
    /\ cpu = CpuIdle
    /\ srv = InitSrv
    /\ hist = [inits |-> 0, last |-> NoOp, prev |-> NoOp, gen_arg |-> <<>>,
               start_mode |-> FALSE, frames |-> 0, exp |-> ZeroStats,
               mid_toggle |-> FALSE, auto_used |-> FALSE, start_elapsed |-> -1,
               generated |-> FALSE, report |-> NoReport,
               since_start |-> 0, stray |-> FALSE, result |-> NoResult,
               enabled_at |-> -1, unmaps |-> 0, closes |-> 0]

\* clock readings available to a call made now
Readings(step) == {t \in clock..(clock + step) : t <= MaxClock}

-----------------------------------------------------------------------------
(* Specification of the buffer lifecycle and the generator *)

\* R_JIT_Init is called at start-up and again only after R_JIT_Shutdown, so
\* no region is mapped when it runs
Next ==
    \/ /\ hist.inits < MaxInits
       /\ jit_code = NULL
       /\ \E base \in MapAddrs, mmap_ok \in BOOLEAN :
            R_JIT_Init(clock, base, mmap_ok, TRUE)
    \/ R_JIT_Shutdown
    \/ \E colormap \in CmapAddrs : R_JIT_GenerateDrawColumn(colormap)

Spec == Init /\ [][Next]_vars
-----------------------------------------------------------------------------
(* Specification of the frame hooks and the statistics.  The renderer calls *)
(* R_JIT_Init first and then runs frames; the console may toggle at any     *)
(* point.  Time passes while a frame is rendered.                           *)

\* frames started in one run
MaxFrames == 2
\* column-draw calls counted before the counter is next reset
MaxDraws == 1

InitFrame == Init /\ arch = "x86_64"

NextFrame ==
    \/ /\ hist.inits = 0
       /\ \E log_ok \in BOOLEAN :
            R_JIT_Init(clock, CHOOSE b \in MapAddrs : TRUE, TRUE, log_ok)
    \/ /\ hist.inits > 0
       /\ \/ R_JIT_Toggle
          \/ R_JIT_ToggleAutoSwitch(clock)
          \/ /\ ~in_frame
             /\ hist.frames < MaxFrames
             /\ R_JIT_FrameStart(clock, clock)
          \/ /\ in_frame
             /\ \E end \in Readings(1) : R_JIT_FrameEnd(end)
          \/ /\ jit_frame_calls < MaxDraws
             /\ R_DrawColumn

SpecFrame == InitFrame /\ [][NextFrame]_vars

-----------------------------------------------------------------------------
(* Specification of the auto-switch timer: frames without draw calls, with *)
(* time passing between the frames and inside R_JIT_FrameStart.            *)

\* frame starts in one run of the timer specification
MaxTimerFrames == 3

\* ticks that pass before a clock reading: none, one, or a second less one
ClockSteps == {0, 1, TicksPerSec - 1}

TimerReadings(from) == {t \in {from + d : d \in ClockSteps} : t <= MaxClock}

NextTimer ==
    \/ /\ hist.inits = 0
       /\ R_JIT_Init(clock, CHOOSE b \in MapAddrs : TRUE, TRUE, FALSE)
    \/ /\ hist.inits > 0
       /\ \/ /\ ~in_frame
             /\ R_JIT_Toggle
          \/ \E now \in TimerReadings(clock) : R_JIT_ToggleAutoSwitch(now)
          \/ /\ ~in_frame
             /\ hist.frames < MaxTimerFrames
             /\ \E t1 \in TimerReadings(clock) :
                  \E now \in {t \in {t1, t1 + 1} : t <= MaxClock} :
                    R_JIT_FrameStart(t1, now)
          \/ /\ in_frame
             /\ R_JIT_FrameEnd(clock)

SpecTimer == InitFrame /\ [][NextTimer]_vars

-----------------------------------------------------------------------------
(* Specification of the execution of the generated code *)

Int32(k) == IF k >= 0 THEN <<k, 0>> ELSE Neg32(0 - k)
INT_MIN == <<0, 32768>>

ExecCounts == {Int32(0), Int32(1), Int32(2), Int32(-1), INT_MIN}
ExecFracs == {<<0, 0>>, <<\h8000, \h000f>>, <<0, \hffff>>}
ExecFracSteps == {<<\h8000, 0>>, <<0, 1>>}
ExecPats == {1}

ExecArgs ==
    [dest : {DestBase}, source : {SourceBase},
     colormap : {jit_current_colormap}, count : ExecCounts,
     fracstep : ExecFracSteps, frac : ExecFracs, pat : ExecPats]

NextExec ==
    \/ /\ hist.inits = 0
       /\ R_JIT_Init(clock, CHOOSE b \in MapAddrs : TRUE, TRUE, TRUE)
    \/ /\ cpu.status \in {"idle", "returned"}
       /\ \E colormap \in CmapAddrs :
            /\ ~GenSkips(colormap)
            /\ R_JIT_GenerateDrawColumn(colormap)
    \/ \E args \in ExecArgs : CallCompiled(args)
    \/ ExecStep

SpecExec == Init /\ [][NextExec]_vars

-----------------------------------------------------------------------------
(* Properties of the generated code's execution *)

\* the loop the generated code is a specialisation of (spec.md section 4.2):
\* texIndex = (frac >> 16) & 127; texel = source[texIndex];
\* pixel = colormap[texel]; *dest = pixel; dest += SCREENWIDTH;
\* frac += fracstep; repeated left times
RECURSIVE RefLoop(_, _, _, _, _)
RefLoop(mem, dest, frac, left, args) ==
    IF left = 0 THEN mem
    ELSE LET texIndex == frac[2] % 128
             texel == SourceByte(args.pat, texIndex)
             pixel == CmapByte(args.colormap, texel)
         IN  RefLoop((dest :> pixel) @@ mem,
                     Add64(dest, Small64(SCREENWIDTH)),
                     Add32(frac, args.fracstep), left - 1, args)

\* the bytes the reference loop writes for a count >= 0: count + 1 iterations
RefDrawColumn(args) ==
    RefLoop(<<>>, args.dest, args.frac, args.count[1] + 1, args)

\* int count >= 0, for the counts the model calls with
NonNegative(count) == count[2] = 0

\* the callee-saved registers the emitted code writes, and the stack pointer
\* (r_jit.c:304-309 and 399-402)
CalleeSaved(a) == IF IsArm(a) THEN {19, 20, 21, 22, 31} ELSE {3, 12, 13, RSP}

\* C1: for every input with count >= 0, the bytes a completed call of the
\* generated code has written to dest are those the reference loop writes:
\* per iteration dest gets colormap[source[(frac >> 16) & 127]], dest advances
\* by 320 and frac by fracstep, on both backends.
C1_CompiledEqualsReference ==
    (cpu.status = "returned" /\ NonNegative(cpu.args.count))
        => cpu.mem = RefDrawColumn(cpu.args)

\* C2: after a completed call of the generated code every callee-saved
\* register the code writes, and the stack pointer, holds its pre-call value.
C2_CalleeSavedPreserved ==
    cpu.status = "returned"
        => \A r \in CalleeSaved(arch) : cpu.regs[r] = cpu.saved[r]

-----------------------------------------------------------------------------
(* Properties of the generator *)

\* the colormap address read back from the immediate fields of the buffer:
\* imm16 of the four movz/movk x19 words (r_jit.c:312-318), or the 8 bytes at
\* X86_64_COLORMAP_OFFSET (r_jit.c:468)
EmbeddedImm(a, buf) ==
    IF IsArm(a)
      THEN [k \in 1..4 |-> Bits(FetchWord(buf, 4 * (k + 1)), 20, 5)]
      ELSE [k \in 1..4 |->
              BufByte(buf, X86_64_COLORMAP_OFFSET + 2 * (k - 1))
              + 256 * BufByte(buf, X86_64_COLORMAP_OFFSET + 2 * (k - 1) + 1)]

\* the buffer with every bit of the immediate cleared
ClearImm(a, buf) ==
    [i \in 1..Len(buf) |->
        IF IsArm(a)
          THEN LET word == (i - 1) \div 4
                   byte == (i - 1) % 4
               IN  IF word \in 2..5
                     THEN CASE byte = 0 -> buf[i] % 32
                            [] byte = 1 -> 0
                            [] byte = 2 -> (buf[i] \div 32) * 32
                            [] OTHER -> buf[i]
                     ELSE buf[i]
          ELSE IF (i - 1) \in X86_64_COLORMAP_OFFSET..(X86_64_COLORMAP_OFFSET + 7)
                 THEN 0
                 ELSE buf[i]]

\* C3: while the buffer is acquired and the entry point is set, the address
\* embedded in the buffer is the one passed to the most recent generate call
\* made since the buffer was acquired.
C3_EmbeddedIsLatest ==
    (jit_code # NULL /\ jit_compiled_fn # NULL /\ hist.gen_arg # <<>>)
        => EmbeddedImm(arch, jit_buf) = hist.gen_arg

\* C4: a generate call with the same address as the call just before it,
\* which generated code, changes neither the buffer bytes, the entry point, the
\* recorded colormap, the protection nor the cache state, and performs no
\* write-enable, store, write-protect or invalidation step.
C4_RepeatIsNoOp ==
    [][(/\ hist.last.op = "generate"
        /\ hist.last.info.rewrote
        /\ hist'.last.op = "generate"
        /\ hist'.prev = hist.last
        /\ hist'.last.arg = hist.last.arg)
         => (/\ jit_buf' = jit_buf
             /\ jit_compiled_fn' = jit_compiled_fn
             /\ jit_current_colormap' = jit_current_colormap
             /\ jit_prot' = jit_prot
             /\ icache_stale' = icache_stale
             /\ gen_steps' = <<>>)]_vars

C4_Witness ==
    /\ hist.last.op = "generate"
    /\ ~hist.last.info.rewrote
    /\ hist.prev.op = "generate"
    /\ hist.prev.info.rewrote
    /\ hist.prev.arg = hist.last.arg
    /\ jit_compiled_fn # NULL
    /\ EmbeddedImm(arch, jit_buf) = hist.last.arg

\* C5: after a call that rewrote the buffer the immediate decodes back to the
\* whole 64-bit address passed, and every bit outside the immediate is the bit
\* of the same code generated for address zero.
C5_ImmediateRoundTrip ==
    (hist.last.op = "generate" /\ hist.last.info.rewrote)
        => /\ EmbeddedImm(arch, jit_buf) = hist.last.arg
           /\ ClearImm(arch, jit_buf)
                = ClearImm(arch, GenBytes(arch, <<>>, NULL))
           /\ \A k \in 1..4 :
                IsArm(arch) =>
                    Bits(FetchWord(jit_buf, 4 * (k + 1)), 22, 21) = k - 1

C5_Witness ==
    /\ hist.last.op = "generate"
    /\ hist.last.info.rewrote
    /\ hist.last.arg = CmapB
    /\ EmbeddedImm(arch, jit_buf) = CmapB
    /\ arch = "x86_64"

\* C6: a generate call that rewrites the buffer stores only into a writable
\* region, and publishes the entry point only once the region is executable
\* and the instruction cache holds no stale line for the written bytes.
C6_PublishedAfterTransition ==
    (hist.last.op = "generate" /\ hist.last.info.rewrote)
        => (~hist.last.info.faulted /\ hist.last.info.entry_ok)

-----------------------------------------------------------------------------
(* Properties of the frame hooks *)

\* C7: between R_JIT_FrameStart and the matching R_JIT_FrameEnd the mode
\* does not change, whatever is called in between.
C7_ModeStableInFrame ==
    [][(in_frame /\ in_frame') => jit_mode_enabled' = jit_mode_enabled]_vars

\* C8: the aggregates are those obtained by crediting every finished frame's
\* time, frame and draw calls to the mode that was current when the frame's
\* R_JIT_FrameStart returned.
C8_CreditsModeAtFrameStart == jit_stats = hist.exp

\* C9: with auto-switch never enabled at a frame start and toggles only
\* between frames, the frame and call counts of each aggregate are those of the
\* frames that ran in that mode.
C9_FrameAttribution ==
    (~hist.mid_toggle /\ ~hist.auto_used)
        => /\ jit_stats.jit_frames = hist.exp.jit_frames
           /\ jit_stats.branch_frames = hist.exp.branch_frames
           /\ jit_stats.jit_calls = hist.exp.jit_calls
           /\ jit_stats.branch_calls = hist.exp.branch_calls
           /\ jit_stats.jit_frames + jit_stats.branch_frames
                = hist.frames - (IF in_frame THEN 1 ELSE 0)

C9_Witness ==
    /\ ~hist.mid_toggle
    /\ ~hist.auto_used
    /\ ~in_frame
    /\ jit_stats.jit_frames = 1
    /\ jit_stats.branch_frames = 1
    /\ jit_stats.jit_calls = 1
    /\ jit_stats.branch_calls = 0

\* ticks of a struct timespec
Ticks(ts) == ts.tv_sec * TicksPerSec + ts.tv_nsec

\* C10: with auto-switch enabled, a R_JIT_FrameStart flips the mode exactly
\* when the time it reads is at least one interval after the last-switch
\* timestamp; a flip sets the timestamp to that reading and no flip leaves
\* it alone.
C10_AutoSwitchAtInterval ==
    [][(~in_frame /\ in_frame' /\ auto_switch_enabled)
         => IF clock' - Ticks(last_switch_time) >= switch_interval_sec * TicksPerSec
              THEN /\ jit_mode_enabled' = ~jit_mode_enabled
                   /\ last_switch_time' = ClockGettime(clock')
              ELSE /\ jit_mode_enabled' = jit_mode_enabled
                   /\ last_switch_time' = last_switch_time]_vars

C10_Witness ==
    /\ in_frame
    /\ auto_switch_enabled
    /\ hist.frames >= 2
    /\ hist.start_elapsed = switch_interval_sec * TicksPerSec
    /\ last_switch_time = ClockGettime(clock)

-----------------------------------------------------------------------------
(* Specification of frames on a build or in a run without compiled code:  *)
(* an unsupported architecture, or an R_JIT_Init whose mmap fails.        *)

InitFallback == Init /\ arch \in {"other", "x86_64"}

NextFallback ==
    \/ /\ hist.inits = 0
       /\ \E mmap_ok \in BOOLEAN :
            R_JIT_Init(clock, CHOOSE b \in MapAddrs : TRUE, mmap_ok, FALSE)
    \/ /\ hist.inits > 0
       /\ \/ R_JIT_GenerateDrawColumn(CmapA)
          \/ R_JIT_Toggle
          \/ /\ ~in_frame
             /\ hist.frames < MaxFrames
             /\ R_JIT_FrameStart(clock, clock)
          \/ /\ in_frame
             /\ \E end \in Readings(1) : R_JIT_FrameEnd(end)
          \/ /\ jit_frame_calls < MaxDraws
             /\ R_DrawColumn

SpecFallback == InitFallback /\ [][NextFallback]_vars

\* C11: while no generate call has produced code, R_JIT_GetDrawColumn
\* returns NULL, and a R_JIT_FrameEnd reached in Compiled mode adds the frame
\* and its draw calls to the Compiled aggregate and nothing to the Reference
\* aggregate.
C11_FallbackCountedAsCompiled ==
    /\ [](~hist.generated => R_JIT_GetDrawColumn = NULL)
    /\ [][(in_frame /\ ~in_frame' /\ ~hist.generated /\ jit_mode_enabled)
            => /\ jit_stats'.jit_frames = jit_stats.jit_frames + 1
               /\ jit_stats'.jit_calls = jit_stats.jit_calls + jit_frame_calls
               /\ jit_stats'.branch_frames = jit_stats.branch_frames
               /\ jit_stats'.branch_calls = jit_stats.branch_calls]_vars

C11_Witness ==
    /\ arch = "other"
    /\ hist.last.op = "generate"
    /\ ~hist.generated
    /\ R_JIT_GetDrawColumn = NULL
    /\ ~in_frame
    /\ jit_mode_enabled
    /\ jit_stats.jit_frames = 1
    /\ jit_stats.jit_calls = 1
    /\ jit_stats.branch_frames = 0

-----------------------------------------------------------------------------
(* Properties of the degraded configurations *)

\* C12: on the unsupported architecture no generate call writes the buffer
\* or performs a generation step, and R_JIT_GetDrawColumn returns NULL after
\* every sequence of operations.
C12_UnsupportedNeverGenerates ==
    arch = "other"
        => /\ R_JIT_GetDrawColumn = NULL
           /\ jit_buf = <<>>
           /\ gen_steps = <<>>
           /\ ~hist.generated

C12_Witness ==
    /\ arch = "other"
    /\ jit_code # NULL
    /\ hist.last.op = "generate"
    /\ hist.prev.op = "generate"
    /\ hist.last.arg # hist.prev.arg
    /\ R_JIT_GetDrawColumn = NULL

\* C13: once R_JIT_Init has failed to map the region, initialization has
\* still completed (statistics zero, mode Reference, timer set), a following
\* generate call has written nothing and set no entry point, and
\* R_JIT_GetDrawColumn returns NULL, whatever was done before that init.
C13_FailedAcquireDisablesCompiled ==
    LET failed(o) == o.op = "init" /\ ~o.info.ok
    IN  (failed(hist.last) \/ (hist.last.op = "generate" /\ failed(hist.prev)))
            => /\ jit_code = NULL
               /\ jit_buf = <<>>
               /\ gen_steps = <<>>
               /\ jit_stats = ZeroStats
               /\ ~jit_mode_enabled
               /\ last_switch_time = ClockGettime(clock)
               /\ R_JIT_GetDrawColumn = NULL

-----------------------------------------------------------------------------
(* Properties of the statistics recorder and the record log *)

\* the aggregates after one more frame of the given mode, time and calls
Credited(stats, jit, elapsed, calls) ==
    IF jit
      THEN [stats EXCEPT !.jit_frames = @ + 1, !.jit_calls = @ + calls,
                         !.jit_time_ms = @ + elapsed]
      ELSE [stats EXCEPT !.branch_frames = @ + 1, !.branch_calls = @ + calls,
                         !.branch_time_ms = @ + elapsed]

\* C14: every R_JIT_FrameEnd, with the log open or not, adds the frame's
\* time, one frame and the frame's draw calls to the aggregate of the current
\* mode; when the log could not be opened it writes and flushes no record.
C14_StatsWithoutLog ==
    [][(in_frame /\ ~in_frame')
         => /\ jit_stats' = Credited(jit_stats, jit_mode_enabled,
                                     clock' - Ticks(frame_start_time),
                                     jit_frame_calls)
            /\ ~log_file => /\ log_rows' = log_rows
                            /\ log_flushed' = log_flushed
                            /\ flush_counter' = flush_counter
                            /\ ~log_file']_vars

C14_Witness ==
    /\ hist.inits = 1
    /\ ~log_file
    /\ log_rows = <<>>
    /\ log_flushed = 0
    /\ ~in_frame
    /\ jit_stats.jit_frames = 1
    /\ jit_stats.branch_frames = 1
    /\ jit_stats.jit_calls + jit_stats.branch_calls = 1

\* C15: with the log open, a R_JIT_FrameEnd appends exactly one record
\* after the earlier records and leaves those as they were; the record's mode
\* label names the aggregate this FrameEnd added a frame to, and its draw-call
\* count is the count this FrameEnd added to that aggregate.
C15_OneRecordPerFrame ==
    [][(in_frame /\ ~in_frame' /\ log_file)
         => /\ Len(log_rows') = Len(log_rows) + 1
            /\ SubSeq(log_rows', 1, Len(log_rows)) = log_rows
            /\ LET r == log_rows'[Len(log_rows')]
               IN  /\ r.kind = "row"
                   /\ r.mode \in {"JIT", "BRANCH"}
                   /\ r.mode = "JIT"
                        <=> jit_stats'.jit_frames = jit_stats.jit_frames + 1
                   /\ r.mode = "BRANCH"
                        <=> jit_stats'.branch_frames = jit_stats.branch_frames + 1
                   /\ r.draw_calls =
                        IF r.mode = "JIT"
                          THEN jit_stats'.jit_calls - jit_stats.jit_calls
                          ELSE jit_stats'.branch_calls - jit_stats.branch_calls
                   /\ r.draw_calls = jit_frame_calls]_vars

C15_Witness ==
    /\ log_file
    /\ ~in_frame
    /\ Len(log_rows) = 3
    /\ log_rows[1] = HeaderRow
    /\ log_rows[2].mode = "BRANCH"
    /\ log_rows[2].draw_calls = 0
    /\ log_rows[3].mode = "JIT"
    /\ log_rows[3].draw_calls = 1
    /\ jit_stats.jit_calls = 1

\* C16: except across R_JIT_Init, no step lowers any of the six aggregate
\* counters, and a R_JIT_FrameEnd adds a frame to exactly one mode and leaves
\* the frame count, call count and time of the other mode unchanged.
C16_AggregatesMonotone ==
    [][hist'.inits = hist.inits
         => /\ jit_stats'.jit_frames >= jit_stats.jit_frames
            /\ jit_stats'.jit_calls >= jit_stats.jit_calls
            /\ jit_stats'.jit_time_ms >= jit_stats.jit_time_ms
            /\ jit_stats'.branch_frames >= jit_stats.branch_frames
            /\ jit_stats'.branch_calls >= jit_stats.branch_calls
            /\ jit_stats'.branch_time_ms >= jit_stats.branch_time_ms
            /\ (in_frame /\ ~in_frame')
                 => \/ /\ jit_stats'.jit_frames = jit_stats.jit_frames + 1
                       /\ jit_stats'.branch_frames = jit_stats.branch_frames
                       /\ jit_stats'.branch_calls = jit_stats.branch_calls
                       /\ jit_stats'.branch_time_ms = jit_stats.branch_time_ms
                    \/ /\ jit_stats'.branch_frames = jit_stats.branch_frames + 1
                       /\ jit_stats'.jit_frames = jit_stats.jit_frames
                       /\ jit_stats'.jit_calls = jit_stats.jit_calls
                       /\ jit_stats'.jit_time_ms = jit_stats.jit_time_ms
            /\ ~(in_frame /\ ~in_frame') => jit_stats' = jit_stats]_vars

C16_Witness ==
    /\ hist.generated
    /\ ~in_frame
    /\ jit_stats.jit_frames = 1
    /\ jit_stats.jit_time_ms = 1
    /\ jit_stats.jit_calls = 1
    /\ jit_stats.branch_frames = 1
    /\ jit_stats.branch_time_ms = 1

-----------------------------------------------------------------------------
(* Specification of the statistics report: frames of either mode, some of *)
(* them taking no measurable time, with reports printed at any point.     *)

\* frames started in one run of the report specification
MaxReportFrames == 2

NextReport ==
    \/ /\ hist.inits = 0
       /\ R_JIT_Init(clock, CHOOSE b \in MapAddrs : TRUE, TRUE, FALSE)
    \/ /\ hist.inits > 0
       /\ \/ /\ ~in_frame
             /\ R_JIT_Toggle
          \/ R_JIT_ToggleAutoSwitch(clock)
          \/ /\ ~hist.generated
             /\ R_JIT_GenerateDrawColumn(CmapA)
          \/ R_JIT_PrintStats
          \/ /\ ~in_frame
             /\ hist.frames < MaxReportFrames
             /\ R_JIT_FrameStart(clock, clock)
          \/ /\ in_frame
             /\ \E end \in Readings(1) : R_JIT_FrameEnd(end)

SpecReport == InitFrame /\ [][NextReport]_vars

\* C17: a printed report shows a mode's average only if that mode's frame
\* count is not zero, and shows the speedup only if both modes have frames and
\* both averages are positive.
C17_ReportGuards ==
    hist.report.printed
        => LET r == hist.report
           IN  /\ r.jit_avg # <<>> => r.stats.jit_frames # 0
               /\ r.branch_avg # <<>> => r.stats.branch_frames # 0
               /\ r.speedup # <<>>
                    => /\ r.stats.jit_frames # 0
                       /\ r.stats.branch_frames # 0
                       /\ r.stats.jit_time_ms > 0
                       /\ r.stats.branch_time_ms > 0

-----------------------------------------------------------------------------
(* Properties of the auto-switch timer state *)

\* a step that is a call of R_JIT_FrameStart
IsFrameStart == ~in_frame /\ in_frame'

\* C18 as stated: after initialization no step other than a
\* R_JIT_FrameStart changes the last-switch timestamp or the enabled flag.
C18_OnlyFrameStartWritesTimer ==
    [][(hist'.inits = hist.inits /\ ~IsFrameStart)
         => UNCHANGED <<last_switch_time, auto_switch_enabled>>]_vars

\* C18 amended: after initialization the enabled flag changes only in a step
\* that changes nothing but the timer state (R_JIT_ToggleAutoSwitch), the
\* last-switch timestamp changes only in a R_JIT_FrameStart or in such a step
\* that enables auto-switch, where it becomes the time read; R_JIT_Toggle,
\* R_JIT_FrameEnd, R_JIT_PrintStats and generate change neither.
C18_TimerWriters ==
    [][hist'.inits = hist.inits
         => /\ (jit_mode_enabled' # jit_mode_enabled /\ ~IsFrameStart)
                 => UNCHANGED <<last_switch_time, auto_switch_enabled>>
            /\ (in_frame /\ ~in_frame')
                 => UNCHANGED <<last_switch_time, auto_switch_enabled>>
            /\ hist'.report # hist.report
                 => UNCHANGED <<last_switch_time, auto_switch_enabled>>
            /\ (hist'.last # hist.last \/ jit_buf' # jit_buf)
                 => UNCHANGED <<last_switch_time, auto_switch_enabled>>
            /\ IsFrameStart => auto_switch_enabled' = auto_switch_enabled
            /\ auto_switch_enabled' # auto_switch_enabled
                 => /\ UNCHANGED <<jit_stats, jit_mode_enabled, in_frame,
                                   jit_frame_calls, frame_start_time>>
                    /\ hist'.last = hist.last /\ hist'.report = hist.report
                    /\ UNCHANGED genVars
                    /\ last_switch_time' =
                         IF auto_switch_enabled' THEN ClockGettime(clock')
                         ELSE last_switch_time
            /\ last_switch_time' # last_switch_time
                 => \/ IsFrameStart
                    \/ (~auto_switch_enabled /\ auto_switch_enabled')]_vars

C18_Witness ==
    /\ auto_switch_enabled
    /\ ~hist.auto_used
    /\ hist.frames >= 1
    /\ hist.generated
    /\ hist.report.printed
    /\ clock > TicksPerSec
    /\ last_switch_time = ClockGettime(clock)

-----------------------------------------------------------------------------
(* Specification of the record log over many frames: frames without draw  *)
(* calls at a fixed time, with the harness shut down and initialized      *)
(* again early in the run, and the benchmark reader run on the closed log. *)

\* frames started in one run of the log specification
MaxLogFrames == 101
\* R_JIT_Shutdown is called after at most this many frames, or at the end
MaxFramesBeforeRestart == 1

NextLog ==
    \/ /\ hist.inits < MaxInits
       /\ jit_code = NULL
       /\ R_JIT_Init(clock, CHOOSE b \in MapAddrs : TRUE, TRUE, TRUE)
    \/ /\ hist.inits > 0
       /\ ~in_frame
       /\ hist.frames <= MaxFramesBeforeRestart \/ hist.frames = MaxLogFrames
       /\ R_JIT_Shutdown
    \/ /\ hist.inits > 0
       /\ ~log_file
       /\ selfModifyingCodeExperiment(Len(log_rows))
    \/ /\ hist.inits > 0
       /\ ~in_frame
       /\ hist.frames < MaxLogFrames
       /\ R_JIT_FrameStart(clock, clock)
    \/ /\ in_frame
       /\ R_JIT_FrameEnd(clock)

SpecLog == InitFrame /\ [][NextLog]_vars

\* C19: with the log open a R_JIT_FrameEnd flushes exactly when the record
\* it appends is the 100th appended since the previous flush, and so at most
\* 99 appended records are ever unflushed.
C19_FlushEveryHundred ==
    /\ [][(in_frame /\ ~in_frame' /\ log_file)
            => /\ log_flushed' \in {log_flushed, Len(log_rows')}
               /\ log_flushed' = Len(log_rows')
                    <=> Len(log_rows') - log_flushed = FLUSH_EVERY]_vars
    /\ [](Len(log_rows) - log_flushed <= FLUSH_EVERY - 1)

-----------------------------------------------------------------------------
(* Properties of the generated code's arguments *)

\* every state in which a call that starts in c can end, or be after
\* MaxInsns instructions
RECURSIVE Outcomes(_, _, _)
Outcomes(a, buf, c) ==
    IF c.status # "running" \/ c.insns >= MaxInsns THEN {c}
    ELSE UNION {Outcomes(a, buf, d) : d \in CpuStep(a, buf, c)}

\* the register that carries the caller-supplied colormap: x2 / rdx
ColormapArgReg == 2

\* values passed as the colormap argument
ColormapArgs == CmapAddrs \cup {NULL}

\* C20: a completed call and every call of the same resident code with the
\* same dest, source, count, fracstep and frac but another colormap argument
\* write the same bytes to dest and return the same register state (apart
\* from the argument register itself, which the code leaves as passed).
C20_ColormapArgumentIgnored ==
    (/\ cpu.status = "returned"
     /\ jit_compiled_fn = jit_code
     /\ jit_current_colormap = cpu.args.colormap)
        => \A other \in ColormapArgs :
             \A o \in Outcomes(arch, jit_buf,
                               EntryCpu(arch, [cpu.args EXCEPT !.colormap = other])) :
                /\ o.status = "returned"
                /\ o.mem = cpu.mem
                /\ \A r \in RegIds \ {ColormapArgReg} : o.regs[r] = cpu.regs[r]

-----------------------------------------------------------------------------
(* Specification of the mode controller: manual toggles at every point,   *)
(* with and without auto-switch, with and without resident code, with     *)
(* draw calls inside and outside frames.                                  *)

NextMode ==
    \/ /\ hist.inits = 0
       /\ R_JIT_Init(clock, CHOOSE b \in MapAddrs : TRUE, TRUE, FALSE)
    \/ /\ hist.inits > 0
       /\ \/ R_JIT_Toggle
          \/ R_JIT_ToggleAutoSwitch(clock)
          \/ /\ ~hist.generated
             /\ R_JIT_GenerateDrawColumn(CmapA)
          \/ /\ ~in_frame
             /\ hist.frames < MaxFrames
             /\ R_JIT_FrameStart(clock, clock)
          \/ /\ in_frame
             /\ R_JIT_FrameEnd(clock)
          \/ /\ jit_frame_calls < MaxDraws
             /\ R_DrawColumn

SpecMode == InitFrame /\ [][NextMode]_vars

\* C21: R_JIT_Toggle can be called in every state after initialization, and
\* every call inverts the mode and leaves the aggregates, the per-frame call
\* counter, the auto-switch flag, the last-switch timestamp, the frame's
\* begin timestamp, the log and the compiled variant unchanged.
C21_ToggleFlipsOnly ==
    /\ [](hist.inits > 0 => ENABLED R_JIT_Toggle)
    /\ [][R_JIT_Toggle
            => /\ jit_mode_enabled' = ~jit_mode_enabled
               /\ jit_stats' = jit_stats
               /\ jit_frame_calls' = jit_frame_calls
               /\ auto_switch_enabled' = auto_switch_enabled
               /\ last_switch_time' = last_switch_time
               /\ frame_start_time' = frame_start_time
               /\ jit_compiled_fn' = jit_compiled_fn
               /\ jit_current_colormap' = jit_current_colormap
               /\ jit_buf' = jit_buf
               /\ jit_code' = jit_code
               /\ log_rows' = log_rows
               /\ in_frame' = in_frame]_vars

\* a toggle inside a frame, with auto-switch off and code resident, after a
\* Reference frame: the mode is Compiled and the frame's draw call is kept
C21_Witness ==
    /\ hist.mid_toggle
    /\ in_frame
    /\ ~auto_switch_enabled
    /\ jit_compiled_fn # NULL
    /\ jit_mode_enabled
    /\ ~hist.start_mode
    /\ jit_frame_calls = 1
    /\ jit_stats.branch_frames = 1
    /\ jit_stats.jit_frames = 0

-----------------------------------------------------------------------------
(* Properties of the per-frame draw-call counter *)

\* draw calls the aggregates hold
CreditedCalls(stats) == stats.jit_calls + stats.branch_calls

\* C22: R_JIT_FrameStart sets the per-frame draw-call counter to zero; the
\* count a R_JIT_FrameEnd adds to an aggregate, and writes to the record when
\* the log is open, is the number of column-draw calls issued since the most
\* recent R_JIT_FrameStart, whatever was issued before it.
C22_FrameCallsSinceStart ==
    /\ [][IsFrameStart => jit_frame_calls' = 0]_vars
    /\ [][(in_frame /\ ~in_frame')
            => /\ CreditedCalls(jit_stats') - CreditedCalls(jit_stats)
                    = hist.since_start
               /\ log_file
                    => log_rows'[Len(log_rows')].draw_calls = hist.since_start]_vars

\* two frames recorded, the first without a draw call and the second with
\* one; a draw call issued between them is in neither record nor aggregate
C22_Witness ==
    /\ ~in_frame
    /\ log_file
    /\ hist.frames = 2
    /\ hist.stray
    /\ Len(log_rows) = 3
    /\ log_rows[2].draw_calls = 0
    /\ log_rows[3].draw_calls = 1
    /\ CreditedCalls(jit_stats) = 1

-----------------------------------------------------------------------------
(* Properties of the loop counter *)

\* the value of a 32-bit word read as a signed integer is negative
Negative32(w) == w[2] >= 32768

\* executions of the loop body for a signed count: once, and again while the
\* decremented count is >= 0
LoopIterations(count) ==
    IF Negative32(count) THEN 1 ELSE count[2] * LIMB + count[1] + 1

\* C23: on both backends a call never executes the loop body more often
\* than count + 1 times for count >= 0, or more than once for count < 0
\* (the most negative count included), and a call that has returned has
\* executed it exactly that often.
C23_LoopIterations ==
    cpu.calls > 0
        => /\ cpu.iters <= LoopIterations(cpu.args.count)
           /\ cpu.status = "returned"
                => cpu.iters = LoopIterations(cpu.args.count)

-----------------------------------------------------------------------------
(* Properties of the benchmark reader *)

\* "первые 100 записей для каждого режима"      self_modifying.cpp:130
RAW_LIMIT == 100

\* the frame times of the records of one mode, in log order
RECURSIVE ModeTimes(_, _, _)
ModeTimes(rows, mode, i) ==
    IF i <= 1 THEN <<>>
    ELSE IF rows[i].mode = mode
           THEN Append(ModeTimes(rows, mode, i - 1), rows[i].frame_time)
           ELSE ModeTimes(rows, mode, i - 1)

FirstN(seq, n) == SubSeq(seq, 1, IF Len(seq) < n THEN Len(seq) ELSE n)

\* the reader has just run on the closed log and found records
ReadClosedLog ==
    /\ hist.last.op = "experiment"
    /\ ~log_file
    /\ ~hist.result.error

\* C24: each raw_data array of the reader's result holds the frame times of
\* the first RAW_LIMIT records of its mode, in log order, and no more.
C24_RawDataFirstHundred ==
    ReadClosedLog
        => /\ hist.result.raw_data.jit_frames
                = FirstN(ModeTimes(log_rows, "JIT", Len(log_rows)), RAW_LIMIT)
           /\ hist.result.raw_data.branch_frames
                = FirstN(ModeTimes(log_rows, "BRANCH", Len(log_rows)), RAW_LIMIT)

-----------------------------------------------------------------------------
(* Specifications of the server: one connection, and two connections.     *)

ServerNext(cs, msgs, lengths) ==
    \E c \in cs :
        \/ \E m \in msgs : ClientSend(c, m)
        \/ \E n \in 1..MaxSends, steps \in lengths : HandleMessage(c, n, steps)
        \/ HandlerSends(c)
        \/ ExperimentReset(c)
        \/ ExperimentStep(c)
        \/ \E n \in 1..MaxSends : ListenerReceive(c, n)
        \/ ListenerAck(c)
        \/ HandlerStopsListener(c)
        \/ ListenerExits(c)
        \/ HandlerJoins(c)
        \/ HandlerPeerGone(c)

NextCancel == ServerNext({1}, Messages, 0..MaxSteps)

SpecCancel == InitFrame /\ [][NextCancel]_vars

\* two clients, sending the frames that touch the flag or end the
\* connection; an execute fails early or runs a loop of one iteration
NextServer == ServerNext(Clients, Messages \ {"list"}, 0..(MaxSteps - 1))

SpecServer == InitFrame /\ [][NextServer]_vars

-----------------------------------------------------------------------------
(* Properties of the cancel flag *)

\* C25: with one client, an experiment whose listener acknowledged a cancel
\* while the execute command was in progress and a cancellation check was
\* still ahead (before the experiment's own reset of the flag, or inside
\* its loop) returns the cancelled result.
C25_AcknowledgedCancelNotLost ==
    LET cl == srv.client[1] IN
    (cl.exp = "returned" /\ (cl.acked_setup \/ cl.acked_loop))
        => cl.result = "cancelled"

-----------------------------------------------------------------------------
(* Properties of the entry point across shutdown and re-initialization *)

\* C26: R_JIT_GetDrawColumn returns a non-NULL entry point only while the
\* region is mapped, and then the address of that mapping with generated
\* code in it; and a generate call that returns with the region mapped, on
\* a supported architecture, leaves generated code in the mapping.
C26_EntryPointOnlyWhileMapped ==
    /\ R_JIT_GetDrawColumn # NULL
         => /\ jit_code # NULL
            /\ R_JIT_GetDrawColumn = jit_code
            /\ jit_buf # <<>>
    /\ (hist.last.op = "generate" /\ jit_code # NULL /\ arch # "other")
         => jit_buf # <<>>

-----------------------------------------------------------------------------
(* Properties of re-enabling auto-switch *)

\* C27: a R_JIT_FrameStart flips the mode only while auto-switch is
\* enabled, and, when auto-switch was last enabled through
\* R_JIT_ToggleAutoSwitch, only when the time it reads is at least one full
\* interval after that enabling, however long auto-switch had been disabled.
C27_NoFlipBeforeIntervalAfterEnable ==
    [][(IsFrameStart /\ jit_mode_enabled' # jit_mode_enabled)
         => /\ auto_switch_enabled
            /\ hist.enabled_at >= 0
                 => clock' - hist.enabled_at >= switch_interval_sec * TicksPerSec]_vars

\* auto-switch was enabled again at least an interval after initialization,
\* and the frame start exactly one interval later has flipped the mode
C27_Witness ==
    /\ in_frame
    /\ auto_switch_enabled
    /\ hist.enabled_at >= 2 * switch_interval_sec * TicksPerSec
    /\ clock - hist.enabled_at = switch_interval_sec * TicksPerSec
    /\ last_switch_time = ClockGettime(clock)
    /\ jit_mode_enabled
    /\ hist.frames >= 2

-----------------------------------------------------------------------------
(* Specification of shutdown: R_JIT_Shutdown may be called at any point,   *)
(* before any R_JIT_Init, after an init whose mmap or fopen failed, twice  *)
(* in a row and in the middle of a frame; the frame hooks keep being       *)
(* called afterwards.  R_JIT_Init runs at start-up and again only after a  *)
(* shutdown.                                                               *)

NextShutdown ==
    \/ /\ hist.inits < MaxInits
       /\ jit_code = NULL
       /\ ~log_file
       /\ \E mmap_ok \in BOOLEAN, log_ok \in BOOLEAN :
            R_JIT_Init(clock, CHOOSE b \in MapAddrs : TRUE, mmap_ok, log_ok)
    \/ R_JIT_Shutdown
    \/ /\ ~in_frame
       /\ hist.frames < MaxFrames
       /\ R_JIT_FrameStart(clock, clock)
    \/ /\ in_frame
       /\ R_JIT_FrameEnd(clock)
    \/ /\ in_frame
       /\ jit_frame_calls < MaxDraws
       /\ R_DrawColumn

SpecShutdown == InitFrame /\ [][NextShutdown]_vars

\* frames credited so far, both modes together
CreditedFrames(stats) == stats.jit_frames + stats.branch_frames

\* C28: R_JIT_Shutdown is idempotent and safe without a successful init:
\* over any number of calls since the latest R_JIT_Init it calls munmap at
\* most once and fclose at most once, and not at all when no region is
\* mapped or no log is open (no init yet, or an init whose mmap or fopen
\* failed); a R_JIT_FrameEnd that runs with the log closed still credits
\* the frame and its calls to the aggregates and appends no record.
C28_ShutdownIdempotent ==
    /\ [](hist.unmaps <= 1 /\ hist.closes <= 1)
    /\ [](ENABLED R_JIT_Shutdown)
    /\ [][R_JIT_Shutdown
            => /\ hist'.unmaps = hist.unmaps + (IF jit_code # NULL THEN 1 ELSE 0)
               /\ hist'.closes = hist.closes + (IF log_file THEN 1 ELSE 0)
               /\ jit_code' = NULL /\ ~log_file'
               /\ (hist.last.op = "shutdown" \/ hist.inits = 0)
                    => /\ hist'.unmaps = hist.unmaps
                       /\ hist'.closes = hist.closes
                       /\ UNCHANGED <<jit_stats, log_rows, jit_mode_enabled>>]_vars
    /\ [][(in_frame /\ ~in_frame' /\ ~log_file)
            => /\ log_rows' = log_rows
               /\ CreditedFrames(jit_stats') = CreditedFrames(jit_stats) + 1
               /\ CreditedCalls(jit_stats') = CreditedCalls(jit_stats)
                                                + jit_frame_calls]_vars

\* a frame that drew a column has ended after a second shutdown in a row,
\* the first of which unmapped the region and closed the log
C28_Witness ==
    /\ hist.unmaps = 1 /\ hist.closes = 1
    /\ hist.last.op = "shutdown" /\ hist.prev.op = "shutdown"
    /\ ~hist.last.info.unmapped /\ ~hist.last.info.closed
    /\ hist.prev.info.unmapped /\ hist.prev.info.closed
    /\ ~in_frame /\ ~log_file
    /\ CreditedFrames(jit_stats) >= 1 /\ CreditedCalls(jit_stats) >= 1

-----------------------------------------------------------------------------
(* Specification of a benchmark session: R_JIT_Init opens the log, the     *)
(* renderer runs frames in both modes with up to MaxSessionDraws column    *)
(* draws each, R_JIT_Shutdown closes the log between two frames and the    *)
(* experiment then reads the closed file; a further session may follow.    *)

\* column-draw calls in one frame of a session: two decimal digits
MaxSessionDraws == 11

NextSession ==
    \/ /\ hist.inits < MaxInits
       /\ jit_code = NULL
       /\ ~log_file
       /\ ~in_frame
       /\ R_JIT_Init(clock, CHOOSE b \in MapAddrs : TRUE, TRUE, TRUE)
    \/ /\ hist.last.op = "init"
       /\ ~in_frame
       /\ hist.frames < MaxFrames
       /\ R_JIT_Toggle
    \/ /\ hist.last.op = "init"
       /\ ~in_frame
       /\ hist.frames < MaxFrames
       /\ R_JIT_FrameStart(clock, clock)
    \/ /\ in_frame
       /\ jit_frame_calls < MaxSessionDraws
       /\ R_DrawColumn
    \/ /\ in_frame
       /\ R_JIT_FrameEnd(clock)
    \/ /\ hist.last.op = "init"
       /\ ~in_frame
       /\ R_JIT_Shutdown
    \/ /\ hist.last.op = "shutdown"
       /\ selfModifyingCodeExperiment(Len(log_rows))

SpecSession == InitFrame /\ [][NextSession]_vars

\* C29: for a session whose log was opened at R_JIT_Init and closed at
\* R_JIT_Shutdown, the frame count and the draw-call total that
\* selfModifyingCodeExperiment computes for the JIT rows and for all other
\* rows of the closed file equal the frame count and the call count of the
\* same mode held in jit_stats at that shutdown; a file without records
\* gives the error reply, and the aggregates then hold no frame.
C29_LogTotalsMatchStats ==
    (/\ hist.last.op = "experiment"
     /\ hist.prev.op = "shutdown"
     /\ hist.prev.info.closed)
      => LET r == hist.result
             s == hist.prev.info.stats
         IN  IF r.error
               THEN s.jit_frames = 0 /\ s.branch_frames = 0
               ELSE /\ r.jit.frames = s.jit_frames
                    /\ r.jit.total_draw_calls = s.jit_calls
                    /\ r.branching.frames = s.branch_frames
                    /\ r.branching.total_draw_calls = s.branch_calls

\* the experiment has read a closed log of a session with a frame of each
\* mode, one of them with a two-digit number of draw calls
C29_Witness ==
    /\ hist.last.op = "experiment"
    /\ hist.prev.op = "shutdown"
    /\ hist.prev.info.closed
    /\ ~hist.result.error
    /\ hist.result.jit.frames = 1
    /\ hist.result.branching.frames = 1
    /\ hist.result.jit.total_draw_calls >= 10
    /\ hist.result.branching.total_draw_calls = 1

-----------------------------------------------------------------------------
(* Properties of cancellation with two clients *)

\* C30: with two clients connected, a cancel request, or a close frame
\* during an execute, affects only an experiment started by the client that
\* sent it: an experiment returns the cancelled result only if its own
\* client's cancel or close was read while it ran, and an experiment whose
\* listener set the flag for a cancel or close read inside its loop returns
\* the cancelled result whatever the other client starts meanwhile.
C30_CancelStaysWithItsClient ==
    \A c \in Clients :
        LET cl == srv.client[c] IN
        /\ cl.result = "cancelled" => cl.asked
        /\ (cl.exp = "returned" /\ cl.set_loop) => cl.result = "cancelled"



=============================================================================
